---- MODULE Spec2Model ----
(***************************************************************************)
(* Omnichain NFT marketplace frontend: instruction composition, the        *)
(* EIP-7702 authorization lifecycle and the submission pipeline to the MEE *)
(* relay, modelled from src/src/main.tsx, src/src/lib/crossChainBridge.ts, *)
(* src/src/lib/omnichainAuthorizations.ts,                                 *)
(* src/src/lib/omnichainOrchestrator.ts, the hook in                       *)
(* src/src/utils/checkBalance.ts and the contract                          *)
(* src/marketplace/contracts/NFTMarketplace.sol.                           *)
(***************************************************************************)
EXTENDS Integers, Sequences, FiniteSets, TLC

VARIABLES
  \* ---- one public marketplace operation (main.tsx) ----
  pc,          \* where the async operation is suspended
  call,        \* the invocation: operation name, params, authorizations
  quoteReq,    \* the argument object handed to meeClient.getQuote
  hash,        \* the hash returned by meeClient.executeQuote
  relayCalls,  \* the relay functions invoked so far, in order
  thrown,      \* the value thrown inside the operation, and where
  outcome,     \* how the returned promise settled
  \* ---- direct calls of the exported composer (crossChainBridge.ts) ----
  flowParams,  \* the input of buildCrossChainPurchaseFlow
  flowOut,     \* what buildCrossChainPurchaseFlow returned
  buyOut,      \* what the purchase path of buyNFTCrossChain composed
  \* ---- validateAuthorizations (omnichainAuthorizations.ts) ----
  valIn,       \* (authorizations, requiredChainIds)
  valOut,      \* returned / threw, with the message
  \* ---- the authorization cache (omnichainAuthorizations.ts) ----
  sessionStorage,  \* the browser's session store, key -> JSON text
  accountNonce,    \* the nonce the signer reports, by chain id
  authCalls,       \* the getOrSignAuthorizations calls, by caller
  \* ---- direct calls of storeAuthorizations / getStoredAuthorizations ----
  storeCall,       \* the set written, under which address, and what was read
  \* ---- the hook useOmnichainMarketplace (checkBalance.ts) ----
  hook,            \* its React state
  initRun,         \* the run of initialize in flight, and how the last one ended
  hookOps,         \* the listNFT / buyNFT / batchBuy calls, by slot
  timers,          \* the pending setTimeout(() => setTxStatus('idle'), 3000)
  \* ---- the NFTMarketplace contract (NFTMarketplace.sol) ----
  listings,        \* mapping(uint256 => Listing)
  listingCounter,  \* the id the next listing gets
  marketCall,      \* the last transaction sent to the contract
  sold,            \* successful buyNFT transactions, by listing id
  cancelled        \* successful cancelListing transactions, by listing id

opsVars == <<pc, call, quoteReq, hash, relayCalls, thrown, outcome>>
composeVars == <<flowParams, flowOut, buyOut>>
validateVars == <<valIn, valOut>>
authVars == <<sessionStorage, accountNonce, authCalls>>
\* what each process leaves alone
storeVars == <<storeCall>>
hookVars == <<hook, initRun, hookOps, timers>>
marketVars == <<listings, listingCounter, marketCall, sold, cancelled>>
notOps == <<composeVars, validateVars, authVars, storeVars, hookVars,
            marketVars>>
notCompose == <<opsVars, validateVars, authVars, storeVars, hookVars,
                marketVars>>
notValidate == <<opsVars, composeVars, authVars, storeVars, hookVars,
                 marketVars>>
notAuth == <<opsVars, composeVars, validateVars, storeVars, hookVars,
             marketVars>>
notStore == <<opsVars, composeVars, validateVars, accountNonce, authCalls,
              hookVars, marketVars>>
notHook == <<opsVars, composeVars, validateVars, accountNonce, authCalls,
             storeVars, marketVars>>
notMarket == <<opsVars, composeVars, validateVars, authVars, storeVars,
               hookVars>>
vars == <<pc, call, quoteReq, hash, relayCalls, thrown, outcome,
          flowParams, flowOut, buyOut, valIn, valOut,
          sessionStorage, accountNonce, authCalls, storeCall,
          hook, initRun, hookOps, timers,
          listings, listingCounter, marketCall, sold, cancelled>>

-----------------------------------------------------------------------------
(* Chain ids *)

ETHEREUM == 1
OPTIMISM == 10
POLYGON == 137
BASE == 8453
ARBITRUM == 42161
BASE_SEPOLIA == 84532
SEPOLIA == 11155111

\* SUPPORTED_CHAINS, in array order, as (id, viem chain name) pairs.
SUPPORTED_CHAINS ==
  << [id |-> BASE, name |-> "Base"],
     [id |-> OPTIMISM, name |-> "OP Mainnet"],
     [id |-> POLYGON, name |-> "Polygon"],
     [id |-> ARBITRUM, name |-> "Arbitrum One"],
     [id |-> ETHEREUM, name |-> "Ethereum"],
     [id |-> BASE_SEPOLIA, name |-> "Base Sepolia"] >>

\* The chains the modelled callers pass: one with marketplace, USDC and
\* SpokePool entries (BASE, POLYGON), one with a marketplace entry only
\* (BASE_SEPOLIA) and one known to none of the tables (SEPOLIA).
Chains == {BASE, POLYGON, BASE_SEPOLIA, SEPOLIA}

-----------------------------------------------------------------------------
(* JavaScript values *)

Undefined == "<undefined>"

\* !x for a value that is a string or undefined.
Truthy(x) == x # Undefined /\ x # ""

\* A thrown Error object, and a thrown value that is not an Error.
Error(msg) == [isError |-> TRUE, message |-> msg]
NonError == [isError |-> FALSE, message |-> ""]

Ok(v) == [ok |-> TRUE, value |-> v]
\* thrown inside the operation's try block / before it
Caught(e) == [ok |-> FALSE, error |-> e, caught |-> TRUE]
Uncaught(e) == [ok |-> FALSE, error |-> e, caught |-> FALSE]

\* An optional field of a params object with its destructuring default.
Default(p, f, d) == IF f \in DOMAIN p THEN p[f] ELSE d

-----------------------------------------------------------------------------
(* Address tables *)

ZeroAddress == "0x0000000000000000000000000000000000000000"

MARKETPLACE_ADDRESSES(chainId) ==
  CASE chainId = ETHEREUM -> ZeroAddress
    [] chainId = OPTIMISM -> ZeroAddress
    [] chainId = POLYGON -> ZeroAddress
    [] chainId = BASE -> ZeroAddress
    [] chainId = ARBITRUM -> ZeroAddress
    [] chainId = BASE_SEPOLIA -> "0xf1DCeB337C737195560a1228a76ABC5cA73e5EA7"
    [] OTHER -> Undefined

ACROSS_SPOKE_POOLS(chainId) ==
  CASE chainId = ETHEREUM -> "0x5c7BCd6E7De5423a257D81B442095A1a6ced35C5"
    [] chainId = OPTIMISM -> "0x6f26Bf09B1C792e3228e5467807a900A503c0281"
    [] chainId = POLYGON -> "0x9295ee1d8C5b022Be115A2AD3c30C72E34e7F096"
    [] chainId = BASE -> "0x09aea4b2242abC8bb4BB78D537A67a245A7bEC64"
    [] chainId = ARBITRUM -> "0xe35e9842fceaCA96570B734083f4a58e8F7C5f2A"
    [] OTHER -> Undefined

getUSDCAddress(chainId) ==
  CASE chainId = ETHEREUM -> "0xA0b86991c6218b36c1d19D4a2e9Eb0cE3606eB48"
    [] chainId = OPTIMISM -> "0x0b2C639c533813f4Aa9D7837CAf62653d097Ff85"
    [] chainId = POLYGON -> "0x3c499c542cEF5E3811e1192ce70d8cC03d5c3359"
    [] chainId = BASE -> "0x833589fCD6eDb6E08f4c7C32D4f71b54bdA02913"
    [] chainId = ARBITRUM -> "0xaf88d065e77c8cC2239327C5EDb3A432268e5831"
    [] OTHER -> Undefined

\* orchestrator.addressOn(chainId, true): in EIP-7702 mode the wallet's own
\* address on every chain.
UserAddress == "0xD698873BFdE3ec44d25319c455ED7eccC222b0da"
addressOn(chainId) == UserAddress

-----------------------------------------------------------------------------
(* ABI encoding: the function signature selects the function, the          *)
(* arguments follow in order, each with its ABI type.                      *)

Addr(a) == [type |-> "address", a |-> a]
Uint(n) == [type |-> "uint256", n |-> n]
Uint32(n) == [type |-> "uint32", n |-> n]
Bytes(b) == [type |-> "bytes", b |-> b]

\* runtimeERC20BalanceOf({tokenAddress, targetAddress,
\*                        constraints: [greaterThanOrEqualTo(min)]})
runtimeERC20BalanceOf(token, target, min) ==
  [type |-> "runtimeERC20BalanceOf", tokenAddress |-> token,
   targetAddress |-> target, gte |-> min]

encodeFunctionData(signature, args) == [fn |-> signature, args |-> args]

Erc20Approve == "approve(address,uint256)"
Erc721Approve == "approve(address,uint256)"
CreateListingSig == "createListing(address,uint256,uint256,address)"
BuyNFTSig == "buyNFT(uint256,address,uint256)"
CancelListingSig == "cancelListing(uint256)"
FlowBuyNFTSig == "buyNFT(address,uint256,address,uint256)"
DepositV3Sig ==
  "depositV3(address,address,address,address,uint256,uint256,uint256,address,uint32,uint32,uint32,bytes)"

Instruction(chainId, to, data) ==
  [chainId |-> chainId, calls |-> << [to |-> to, value |-> 0, data |-> data] >>]

-----------------------------------------------------------------------------
(* crossChainBridge.ts: instruction builders *)

Throw(e) == [ok |-> FALSE, error |-> e]

\* orchestrator.buildComposable(config): the external account builds one
\* instruction from the config, or rejects.  n numbers the calls made by one
\* composition and failAt names the call that rejects (0: none does).
buildComposable(config, n, failAt) ==
  IF n = failAt
  THEN Throw(Error("buildComposable rejected"))
  ELSE Ok(IF config.type = "approve"
          THEN Instruction(config.chainId, config.tokenAddress,
                 encodeFunctionData(Erc20Approve,
                   <<Addr(config.spender), config.amount>>))
          ELSE Instruction(config.chainId, config.to,
                 encodeFunctionData(config.functionName, config.args)))

\* buildAcrossBridgeInstruction returning the deposit without its approval
buildAcrossBridgeInstruction_depositOnly(params, failAt, t1, t2) ==
  LET spokePool == ACROSS_SPOKE_POOLS(params.fromChain)
      orchestratorAddress == addressOn(params.fromChain)
      bridgeInstruction ==
        buildComposable(
          [type |-> "default", chainId |-> params.fromChain, to |-> spokePool,
           functionName |-> DepositV3Sig,
           args |-> << Addr(orchestratorAddress), Addr(params.recipient),
                       Addr(params.token), Addr(params.token),
                       runtimeERC20BalanceOf(params.token, orchestratorAddress, 1),
                       Uint(params.approximateAmount), Uint(params.toChain),
                       Addr(ZeroAddress), Uint32(t1), Uint32(t2 + 3600),
                       Uint32(0), Bytes("0x") >>],
          2, failAt)
  IN  IF ~Truthy(spokePool)
      THEN Throw(Error("Across SpokePool not found for chain "
                         \o ToString(params.fromChain)))
      ELSE IF ~bridgeInstruction.ok THEN bridgeInstruction
      ELSE Ok(<<bridgeInstruction.value>>)

\* t1 and t2 are the two readings of Math.floor(Date.now() / 1000).
buildAcrossBridgeInstruction(params, failAt, t1, t2) ==
  LET spokePool == ACROSS_SPOKE_POOLS(params.fromChain)
      orchestratorAddress == addressOn(params.fromChain)
      approveInstruction ==
        buildComposable(
          [type |-> "approve", chainId |-> params.fromChain,
           tokenAddress |-> params.token, spender |-> spokePool,
           amount |-> runtimeERC20BalanceOf(params.token, orchestratorAddress, 1)],
          1, failAt)
      bridgeInstruction ==
        buildComposable(
          [type |-> "default", chainId |-> params.fromChain, to |-> spokePool,
           functionName |-> DepositV3Sig,
           args |-> << Addr(orchestratorAddress),
                       Addr(params.recipient),
                       Addr(params.token),
                       Addr(params.token),
                       runtimeERC20BalanceOf(params.token, orchestratorAddress, 1),
                       Uint(params.approximateAmount),
                       Uint(params.toChain),
                       Addr(ZeroAddress),
                       Uint32(t1),
                       Uint32(t2 + 3600),
                       Uint32(0),
                       Bytes("0x") >>],
          2, failAt)
  IN  IF ~Truthy(spokePool)
      THEN Throw(Error("Across SpokePool not found for chain "
                         \o ToString(params.fromChain)))
      ELSE IF ~approveInstruction.ok THEN approveInstruction
      ELSE IF ~bridgeInstruction.ok THEN bridgeInstruction
      ELSE Ok(<<approveInstruction.value, bridgeInstruction.value>>)

buildApproveInstruction(chainId, token, spender, n, failAt) ==
  buildComposable(
    [type |-> "approve", chainId |-> chainId, tokenAddress |-> token,
     spender |-> spender,
     amount |-> runtimeERC20BalanceOf(token, addressOn(chainId), 1)],
    n, failAt)

\* buildFixedApproveInstruction approving the runtime balance instead of
\* the given amount
buildFixedApproveInstruction_runtime(chainId, token, spender, amount) ==
  Instruction(chainId, token,
    encodeFunctionData(Erc20Approve,
      <<Addr(spender), runtimeERC20BalanceOf(token, addressOn(chainId), 1)>>))

buildFixedApproveInstruction(chainId, token, spender, amount) ==
  Instruction(chainId, token,
    encodeFunctionData(Erc20Approve, <<Addr(spender), Uint(amount)>>))

\* buildCrossChainPurchaseFlow pushing the marketplace approval before the
\* bridge leg
buildCrossChainPurchaseFlow_approveFirst(params, failAt, t1, t2) ==
  LET bridgeInstructions ==
        buildAcrossBridgeInstruction(
          [fromChain |-> params.paymentChainId,
           toChain |-> params.listingChainId,
           token |-> params.paymentToken,
           recipient |-> addressOn(params.listingChainId),
           approximateAmount |-> params.price],
          failAt, t1, t2)
      approveMarketplace ==
        buildApproveInstruction(params.listingChainId, params.listingToken,
                                params.marketplaceAddress, 3, failAt)
      buyNFTInstruction ==
        Instruction(params.listingChainId, params.marketplaceAddress,
          encodeFunctionData(FlowBuyNFTSig,
            << Addr(params.nftAddress), Uint(params.tokenId),
               Addr(params.listingToken), Uint(params.price) >>))
  IN  IF params.paymentChainId # params.listingChainId
      THEN IF ~bridgeInstructions.ok THEN bridgeInstructions
           ELSE IF ~approveMarketplace.ok THEN approveMarketplace
           ELSE Ok(<<approveMarketplace.value>> \o bridgeInstructions.value
                     \o <<buyNFTInstruction>>)
      ELSE Ok(<< buildFixedApproveInstruction(params.listingChainId,
                   params.paymentToken, params.marketplaceAddress, params.price),
                 buyNFTInstruction >>)

buildCrossChainPurchaseFlow(params, failAt, t1, t2) ==
  LET bridgeInstructions ==
        buildAcrossBridgeInstruction(
          [fromChain |-> params.paymentChainId,
           toChain |-> params.listingChainId,
           token |-> params.paymentToken,
           recipient |-> addressOn(params.listingChainId),
           approximateAmount |-> params.price],
          failAt, t1, t2)
      approveMarketplace ==
        buildApproveInstruction(params.listingChainId, params.listingToken,
                                params.marketplaceAddress, 3, failAt)
      approveInstruction ==
        buildFixedApproveInstruction(params.listingChainId, params.paymentToken,
                                     params.marketplaceAddress, params.price)
      buyNFTInstruction ==
        Instruction(params.listingChainId, params.marketplaceAddress,
          encodeFunctionData(FlowBuyNFTSig,
            << Addr(params.nftAddress), Uint(params.tokenId),
               Addr(params.listingToken), Uint(params.price) >>))
  IN  IF params.paymentChainId # params.listingChainId
      THEN IF ~bridgeInstructions.ok THEN bridgeInstructions
           ELSE IF ~approveMarketplace.ok THEN approveMarketplace
           ELSE Ok(bridgeInstructions.value \o <<approveMarketplace.value>>
                     \o <<buyNFTInstruction>>)
      ELSE Ok(<<approveInstruction, buyNFTInstruction>>)

-----------------------------------------------------------------------------
(* main.tsx: what each public operation composes before it calls the relay *)

getMEEScanLink(h) == "https://meescan.biconomy.io/details/" \o h

\* listNFTGasless, up to the getQuote call
listNFTGaslessInstructions(params) ==
  LET chainId == params.chain
      marketplace == MARKETPLACE_ADDRESSES(chainId)
      paymentToken == Default(params, "paymentToken", Undefined)
      payment == IF Truthy(paymentToken) THEN paymentToken
                 ELSE getUSDCAddress(chainId)
      approveNFT ==
        Instruction(chainId, params.nftAddress,
          encodeFunctionData(Erc721Approve,
            <<Addr(marketplace), Uint(params.tokenId)>>))
      createListing ==
        Instruction(chainId, marketplace,
          encodeFunctionData(CreateListingSig,
            << Addr(params.nftAddress), Uint(params.tokenId),
               Uint(params.price), Addr(payment) >>))
  IN  IF ~Truthy(marketplace)
      THEN Uncaught(Error("Marketplace not deployed on chain " \o ToString(chainId)))
      ELSE IF ~Truthy(payment)
      THEN Uncaught(Error("Payment token not found for chain " \o ToString(chainId)))
      ELSE Ok(<<approveNFT, createListing>>)

\* the else branch approving on the payment chain
sameChainPurchase_onPaymentChain(params) ==
  LET marketplace == MARKETPLACE_ADDRESSES(params.listingChain)
  IN  << buildFixedApproveInstruction(params.paymentChain,
                                      params.paymentTokenAddress,
                                      marketplace, params.price),
         Instruction(params.listingChain, marketplace,
           encodeFunctionData(BuyNFTSig,
             << Uint(Default(params, "listingId", 0)),
                Addr(params.nftAddress), Uint(params.tokenId) >>)) >>

\* the else branch of buyNFTCrossChain: approve the price, then buy
sameChainPurchase(params) ==
  LET listingChainId == params.listingChain
      marketplace == MARKETPLACE_ADDRESSES(listingChainId)
      approveInstruction ==
        buildFixedApproveInstruction(listingChainId, params.paymentTokenAddress,
                                     marketplace, params.price)
      listingId == Default(params, "listingId", 0)
      buyInstruction ==
        Instruction(listingChainId, marketplace,
          encodeFunctionData(BuyNFTSig,
            << Uint(IF listingId = 0 THEN 0 ELSE listingId),
               Addr(params.nftAddress), Uint(params.tokenId) >>))
  IN  <<approveInstruction, buyInstruction>>

\* buyNFTCrossChain, up to the getQuote call
buyNFTCrossChainInstructions(params, failAt, t1, t2) ==
  LET listingChainId == params.listingChain
      paymentChainId == params.paymentChain
      autoBridge == Default(params, "autoBridge", TRUE)
      marketplace == MARKETPLACE_ADDRESSES(listingChainId)
      listingToken == getUSDCAddress(listingChainId)
      flow ==
        buildCrossChainPurchaseFlow(
          [paymentChainId |-> paymentChainId,
           listingChainId |-> listingChainId,
           paymentToken |-> params.paymentTokenAddress,
           listingToken |-> listingToken,
           nftAddress |-> params.nftAddress,
           tokenId |-> params.tokenId,
           price |-> params.price,
           marketplaceAddress |-> marketplace,
           buyer |-> addressOn(listingChainId)],
          failAt, t1, t2)
  IN  IF ~Truthy(marketplace)
      THEN Uncaught(Error("Marketplace not deployed on chain "
                            \o ToString(listingChainId)))
      ELSE IF paymentChainId # listingChainId /\ autoBridge
      THEN IF ~Truthy(listingToken)
           THEN Caught(Error("Payment token not found for chain "
                               \o ToString(listingChainId)))
           ELSE IF ~flow.ok THEN Caught(flow.error)
           ELSE Ok(flow.value)
      ELSE Ok(sameChainPurchase(params))

\* the loop of batchBuyNFTs over buyInstructions[i..]: the instructions and
\* the chain ids (a Set, in insertion order) collected so far
RECURSIVE batchLoop(_, _, _, _)
batchLoop(buyInstructions, i, allInstructions, chainIds) ==
  IF i > Len(buyInstructions)
  THEN [allInstructions |-> allInstructions, chainIds |-> chainIds]
  ELSE
    LET buy == buyInstructions[i]
        chainId == buy.chain
        marketplace == MARKETPLACE_ADDRESSES(chainId)
        approveInstruction ==
          buildFixedApproveInstruction(chainId, buy.paymentToken.address,
                                       marketplace, buy.price)
        listingId == Default(buy, "listingId", 0)
        buyInstruction ==
          Instruction(chainId, marketplace,
            encodeFunctionData(BuyNFTSig,
              << Uint(IF listingId = 0 THEN 0 ELSE listingId),
                 Addr(buy.nftAddress), Uint(buy.tokenId) >>))
    IN  IF ~Truthy(marketplace)
        THEN batchLoop(buyInstructions, i + 1, allInstructions, chainIds)
        ELSE batchLoop(buyInstructions, i + 1,
               allInstructions \o <<approveInstruction, buyInstruction>>,
               IF \E k \in 1..Len(chainIds) : chainIds[k] = chainId
               THEN chainIds ELSE Append(chainIds, chainId))

\* batchBuyNFTs failing as soon as one item's chain has no marketplace
batchBuyNFTsInstructions_failOnSkip(params) ==
  LET built == batchLoop(params.buyInstructions, 1, <<>>, <<>>)
  IN  IF Len(params.buyInstructions) = 0
      THEN Uncaught(Error("No buy instructions provided"))
      ELSE IF Len(built.allInstructions) < 2 * Len(params.buyInstructions)
      THEN Caught(Error("No valid instructions to execute"))
      ELSE Ok(built.allInstructions)

\* batchBuyNFTs, up to the getQuote call
batchBuyNFTsInstructions(params) ==
  LET built == batchLoop(params.buyInstructions, 1, <<>>, <<>>)
  IN  IF Len(params.buyInstructions) = 0
      THEN Uncaught(Error("No buy instructions provided"))
      ELSE IF Len(built.allInstructions) = 0
      THEN Caught(Error("No valid instructions to execute"))
      ELSE Ok(built.allInstructions)

\* cancelListing, up to the getQuote call
cancelListingInstructions(params) ==
  LET marketplace == MARKETPLACE_ADDRESSES(params.chainId)
  IN  IF ~Truthy(marketplace)
      THEN Uncaught(Error("Marketplace not deployed on chain "
                            \o ToString(params.chainId)))
      ELSE Ok(<< Instruction(params.chainId, marketplace,
                   encodeFunctionData(CancelListingSig,
                     <<Uint(params.listingId)>>)) >>)

\* the object passed to getQuote: the sponsorship and feeToken keys are
\* spread in only when set
QuoteRequest(instructions, authorizations, sponsorship, feeToken) ==
  LET hasFee == feeToken.address # Undefined
  IN  IF sponsorship /\ hasFee
      THEN [instructions |-> instructions, delegate |-> TRUE,
            authorizations |-> authorizations, sponsorship |-> TRUE,
            feeToken |-> feeToken]
      ELSE IF sponsorship
      THEN [instructions |-> instructions, delegate |-> TRUE,
            authorizations |-> authorizations, sponsorship |-> TRUE]
      ELSE IF hasFee
      THEN [instructions |-> instructions, delegate |-> TRUE,
            authorizations |-> authorizations, feeToken |-> feeToken]
      ELSE [instructions |-> instructions, delegate |-> TRUE,
            authorizations |-> authorizations]

NoFeeToken == [address |-> Undefined, chainId |-> 0]

\* the chainIds of the result built in the catch block of each operation
FailedChainIds(c) ==
  CASE c.op = "listNFTGasless" -> <<c.params.chain>>
    [] c.op = "buyNFTCrossChain" -> <<c.params.listingChain>>
    [] c.op = "batchBuyNFTs" -> <<>>
    [] c.op = "cancelListing" -> <<c.params.chainId>>

\* the chainIds of the success result of each operation
SuccessChainIds(c) ==
  CASE c.op = "listNFTGasless" -> <<c.params.chain>>
    [] c.op = "buyNFTCrossChain" ->
         IF c.params.paymentChain # c.params.listingChain
         THEN <<c.params.paymentChain, c.params.listingChain>>
         ELSE <<c.params.listingChain>>
    [] c.op = "batchBuyNFTs" ->
         batchLoop(c.params.buyInstructions, 1, <<>>, <<>>).chainIds
    [] c.op = "cancelListing" -> <<c.params.chainId>>

\* the catch block reporting every error as 'Unknown error'
FailedResult_unknownError(c, e) ==
  [hash |-> "0x0", status |-> "failed", chainIds |-> FailedChainIds(c),
   meeScanLink |-> "", error |-> "Unknown error"]

\* catch (error) { return { hash: '0x0', status: 'failed', ... } }
FailedResult(c, e) ==
  [hash |-> "0x0", status |-> "failed", chainIds |-> FailedChainIds(c),
   meeScanLink |-> "",
   error |-> IF e.isError THEN e.message ELSE "Unknown error"]

\* the success result without its explorer link
SuccessResult_noLink(c, h, receipt) ==
  [hash |-> h, status |-> "success", chainIds |-> SuccessChainIds(c),
   meeScanLink |-> "", receipt |-> receipt]

\* return { hash, status: 'success', chainIds, meeScanLink, receipt }
SuccessResult(c, h, receipt) ==
  [hash |-> h, status |-> "success", chainIds |-> SuccessChainIds(c),
   meeScanLink |-> getMEEScanLink(h), receipt |-> receipt]

Pending == [kind |-> "pending"]
Resolved(result) == [kind |-> "resolved", result |-> result]
Rejected(e) == [kind |-> "rejected", error |-> e]

-----------------------------------------------------------------------------
(* omnichainAuthorizations.ts: coverage validation *)

NEXUS_IMPLEMENTATION == "0x000000004F43C49e93C970E84001853a70923B03"

\* JavaScript values that JSON.stringify tells apart
NumberV(n) == [number |-> n]
BigIntV(n) == [bigint |-> n]
StringV(str) == [string |-> str]

\* An Authorization as the types declare it: chainId and v are numbers,
\* nonce is a bigint, address, r and s are strings.
Authorization(chainId, nonce) ==
  [chainId |-> NumberV(chainId), address |-> StringV(NEXUS_IMPLEMENTATION),
   nonce |-> BigIntV(nonce), v |-> NumberV(27),
   r |-> StringV("0xr"), s |-> StringV("0xs")]

\* authorizations[chainId] !== undefined, for a map keyed by chain id
hasAuthorizationForChain(authorizations, chainId) ==
  chainId \in DOMAIN authorizations

RECURSIVE join(_, _)
join(strings, sep) ==
  IF Len(strings) = 0 THEN ""
  ELSE IF Len(strings) = 1 THEN strings[1]
  ELSE strings[1] \o sep \o join(Tail(strings), sep)

\* SUPPORTED_CHAINS.find((c) => c.id === id)?.name || `Chain ${id}`
chainNameOrId(id) ==
  LET found == SelectSeq(SUPPORTED_CHAINS, LAMBDA c : c.id = id)
  IN  IF Len(found) > 0 /\ found[1].name # ""
      THEN found[1].name
      ELSE "Chain " \o ToString(id)

RECURSIVE mapNames(_)
mapNames(ids) ==
  IF Len(ids) = 0 THEN <<>>
  ELSE <<chainNameOrId(Head(ids))>> \o mapNames(Tail(ids))

\* validateAuthorizations reporting only the first missing chain
validateAuthorizations_firstMissing(authorizations, requiredChainIds) ==
  LET missingChains ==
        SelectSeq(requiredChainIds,
                  LAMBDA chainId : ~hasAuthorizationForChain(authorizations, chainId))
      chainNames == IF Len(missingChains) = 0 THEN <<>>
                    ELSE <<chainNameOrId(missingChains[1])>>
  IN  IF Len(missingChains) > 0
      THEN [threw |-> TRUE, chainNames |-> chainNames,
            message |-> "Missing EIP-7702 authorizations for chains: "
                          \o join(chainNames, ", ")
                          \o ". Please sign authorizations first."]
      ELSE [threw |-> FALSE, chainNames |-> <<>>, message |-> ""]

\* validateAuthorizations: returns, or throws an Error whose message joins
\* the names of the missing chains (chainNames keeps them before the join)
validateAuthorizations(authorizations, requiredChainIds) ==
  LET missingChains ==
        SelectSeq(requiredChainIds,
                  LAMBDA chainId : ~hasAuthorizationForChain(authorizations, chainId))
      chainNames == mapNames(missingChains)
  IN  IF Len(missingChains) > 0
      THEN [threw |-> TRUE, chainNames |-> chainNames,
            message |-> "Missing EIP-7702 authorizations for chains: "
                          \o join(chainNames, ", ")
                          \o ". Please sign authorizations first."]
      ELSE [threw |-> FALSE, chainNames |-> <<>>, message |-> ""]

-----------------------------------------------------------------------------
(* Inputs of the modelled callers *)

MaxBatch == 2        \* longest buyInstructions array
MaxRequired == 2     \* longest requiredChainIds array

NftAddress == "0x5FbDB2315678afecb367f032d93F642f64180aa3"
PaymentTokenIn == "0xc2132D05D31c914a87C6611C10748AEb04B58e8F"
TokenIdIn == 1
PriceIn == 100
ListingIdIn == 7
ClockIn == 1700000000

WithField(r, f, v) == r @@ (f :> v)

\* r, and r with each optional field of opts (a set of <<name, value>>) set
RECURSIVE Optional(_, _)
Optional(rs, opts) ==
  IF opts = {} THEN rs
  ELSE LET o == CHOOSE o \in opts : TRUE
       IN  Optional(rs \cup {WithField(r, o[1], o[2]) : r \in rs}, opts \ {o})

FeeTokenIn == [address |-> getUSDCAddress(BASE), chainId |-> BASE]

ListParamsSet ==
  Optional({[nftAddress |-> NftAddress, tokenId |-> TokenIdIn, price |-> PriceIn,
             chain |-> c] : c \in Chains},
           {<<"paymentToken", PaymentTokenIn>>, <<"gasless", FALSE>>})

BuyParamsSet ==
  Optional({[listingChain |-> l, paymentChain |-> p, nftAddress |-> NftAddress,
             tokenId |-> TokenIdIn, price |-> PriceIn,
             paymentTokenAddress |-> PaymentTokenIn] : l \in Chains, p \in Chains},
           {<<"autoBridge", FALSE>>, <<"listingId", ListingIdIn>>,
            <<"feeToken", FeeTokenIn>>})

BuyItemSet ==
  Optional({[chain |-> c, nftAddress |-> NftAddress, tokenId |-> TokenIdIn,
             price |-> PriceIn,
             paymentToken |-> [address |-> PaymentTokenIn, chainId |-> c,
                               symbol |-> "USDT", decimals |-> 6]] : c \in Chains},
           {<<"listingId", ListingIdIn>>})

SeqsUpTo(S, n) == UNION {[1..k -> S] : k \in 0..n}

BatchParamsSet ==
  Optional({[buyInstructions |-> b] : b \in SeqsUpTo(BuyItemSet, MaxBatch)},
           {<<"gasless", TRUE>>, <<"feeToken", FeeTokenIn>>})

CancelParamsSet == {[listingId |-> ListingIdIn, chainId |-> c] : c \in Chains}

\* the Authorization[] a caller passes: per-chain entries, or the universal
\* authorization (chainId 0)
AuthorizationArrays ==
  { <<>>,
    <<Authorization(BASE, 0)>>,
    <<Authorization(BASE, 0), Authorization(POLYGON, 0)>>,
    <<Authorization(BASE, 0), Authorization(POLYGON, 0),
      Authorization(BASE_SEPOLIA, 0)>>,
    <<Authorization(0, 0)>> }

\* which buildComposable call rejects, and the two clock readings
NoEnv == [failAt |-> 0, t1 |-> ClockIn, t2 |-> ClockIn]
Envs == {[failAt |-> f, t1 |-> ClockIn, t2 |-> t] :
           f \in 0..3, t \in {ClockIn, ClockIn + 1}}

RelayErrors == {Error("relay rejected the request"), NonError}
Hashes == {"0xabc123"}
Receipts == {"receipt"}

-----------------------------------------------------------------------------
(* The public operations as processes suspended at their awaits *)

NoCall == [op |-> "none"]
NoQuoteRequest == [instructions |-> <<>>, delegate |-> FALSE, authorizations |-> <<>>]
NotThrown == [at |-> "none", error |-> NonError]

InitOps ==
  /\ pc = "idle"
  /\ call = NoCall
  /\ quoteReq = NoQuoteRequest
  /\ hash = ""
  /\ relayCalls = <<>>
  /\ thrown = NotThrown
  /\ outcome = Pending

\* The synchronous prefix of an operation: compose, then either call
\* getQuote, return the failed result from the catch block, or throw.
Invoke(c, composed, sponsorship, feeToken) ==
  /\ pc = "idle"
  /\ call' = c
  /\ hash' = hash
  /\ IF composed.ok
     THEN /\ pc' = "getQuote"
          /\ quoteReq' = QuoteRequest(composed.value, c.authorizations,
                                      sponsorship, feeToken)
          /\ relayCalls' = <<"getQuote">>
          /\ thrown' = thrown
          /\ outcome' = Pending
     ELSE /\ pc' = "done"
          /\ quoteReq' = quoteReq
          /\ relayCalls' = relayCalls
          /\ thrown' = [at |-> "compose", error |-> composed.error]
          /\ outcome' = IF composed.caught
                        THEN Resolved(FailedResult(c, composed.error))
                        ELSE Rejected(composed.error)

ListNFTGasless ==
  /\ pc = "idle"
  /\ \E params \in ListParamsSet, authorizations \in AuthorizationArrays :
       /\ Invoke([op |-> "listNFTGasless", params |-> params,
                  authorizations |-> authorizations, env |-> NoEnv],
                 listNFTGaslessInstructions(params),
                 Default(params, "gasless", TRUE), NoFeeToken)
       /\ UNCHANGED <<notOps>>

BuyNFTCrossChain ==
  /\ pc = "idle"
  /\ \E params \in BuyParamsSet, authorizations \in AuthorizationArrays, env \in Envs :
       /\ \/ /\ params.paymentChain # params.listingChain
             /\ Default(params, "autoBridge", TRUE)
          \/ env = NoEnv
       /\ Invoke([op |-> "buyNFTCrossChain", params |-> params,
                  authorizations |-> authorizations, env |-> env],
                 buyNFTCrossChainInstructions(params, env.failAt, env.t1, env.t2),
                 FALSE, Default(params, "feeToken", NoFeeToken))
       /\ UNCHANGED <<notOps>>

BatchBuyNFTs ==
  /\ pc = "idle"
  /\ \E params \in BatchParamsSet, authorizations \in AuthorizationArrays :
       /\ Invoke([op |-> "batchBuyNFTs", params |-> params,
                  authorizations |-> authorizations, env |-> NoEnv],
                 batchBuyNFTsInstructions(params),
                 Default(params, "gasless", FALSE),
                 Default(params, "feeToken", NoFeeToken))
       /\ UNCHANGED <<notOps>>

CancelListing ==
  /\ pc = "idle"
  /\ \E params \in CancelParamsSet, authorizations \in AuthorizationArrays :
       /\ Invoke([op |-> "cancelListing", params |-> params,
                  authorizations |-> authorizations, env |-> NoEnv],
                 cancelListingInstructions(params), TRUE, NoFeeToken)
       /\ UNCHANGED <<notOps>>

\* a rejected getQuote that does not stop the pipeline
CatchRelayError_resumes(e) ==
  /\ pc' = IF pc = "getQuote" THEN "executeQuote" ELSE "done"
  /\ relayCalls' = IF pc = "getQuote"
                   THEN Append(relayCalls, "executeQuote") ELSE relayCalls
  /\ thrown' = [at |-> pc, error |-> e]
  /\ outcome' = IF pc = "getQuote" THEN outcome
                ELSE Resolved(FailedResult(call, e))
  /\ UNCHANGED <<call, quoteReq, hash, notOps>>

\* An awaited relay call rejects with e: the catch block of the operation
\* returns the failed result.
CatchRelayError(e) ==
  /\ pc' = "done"
  /\ thrown' = [at |-> pc, error |-> e]
  /\ outcome' = Resolved(FailedResult(call, e))
  /\ UNCHANGED <<call, quoteReq, hash, relayCalls, notOps>>

GetQuoteResolves ==
  /\ pc = "getQuote"
  /\ pc' = "executeQuote"
  /\ relayCalls' = Append(relayCalls, "executeQuote")
  /\ UNCHANGED <<call, quoteReq, hash, thrown, outcome, notOps>>

GetQuoteRejects ==
  /\ pc = "getQuote"
  /\ \E e \in RelayErrors : CatchRelayError(e)

ExecuteQuoteResolves ==
  \E h \in Hashes :
    /\ pc = "executeQuote"
    /\ pc' = "waitForSupertransactionReceipt"
    /\ hash' = h
    /\ relayCalls' = Append(relayCalls, "waitForSupertransactionReceipt")
    /\ UNCHANGED <<call, quoteReq, thrown, outcome, notOps>>

ExecuteQuoteRejects ==
  /\ pc = "executeQuote"
  /\ \E e \in RelayErrors : CatchRelayError(e)

WaitForReceiptResolves ==
  \E receipt \in Receipts :
    /\ pc = "waitForSupertransactionReceipt"
    /\ pc' = "done"
    /\ outcome' = Resolved(SuccessResult(call, hash, receipt))
    /\ UNCHANGED <<call, quoteReq, hash, relayCalls, thrown, notOps>>

WaitForReceiptRejects ==
  /\ pc = "waitForSupertransactionReceipt"
  /\ \E e \in RelayErrors : CatchRelayError(e)

NextOps ==
  \/ ListNFTGasless
  \/ BuyNFTCrossChain
  \/ BatchBuyNFTs
  \/ CancelListing
  \/ GetQuoteResolves
  \/ GetQuoteRejects
  \/ ExecuteQuoteResolves
  \/ ExecuteQuoteRejects
  \/ WaitForReceiptResolves
  \/ WaitForReceiptRejects

-----------------------------------------------------------------------------
(* Direct calls of buildCrossChainPurchaseFlow, next to the instructions   *)
(* buyNFTCrossChain composes from the equivalent parameters                *)

NoOutput == [ok |-> FALSE, error |-> NonError, none |-> TRUE]

\* the parameters buyNFTCrossChain would pass for a purchase b
FlowParamsOf(b) ==
  [paymentChainId |-> b.paymentChain,
   listingChainId |-> b.listingChain,
   paymentToken |-> b.paymentTokenAddress,
   listingToken |-> IF Truthy(getUSDCAddress(b.listingChain))
                    THEN getUSDCAddress(b.listingChain)
                    ELSE b.paymentTokenAddress,
   nftAddress |-> b.nftAddress,
   tokenId |-> b.tokenId,
   price |-> b.price,
   marketplaceAddress |-> MARKETPLACE_ADDRESSES(b.listingChain),
   buyer |-> addressOn(b.listingChain)]

InitCompose ==
  /\ flowParams \in {[buy |-> b, env |-> e] :
                       b \in {x \in BuyParamsSet :
                                /\ Truthy(MARKETPLACE_ADDRESSES(x.listingChain))
                                /\ "feeToken" \notin DOMAIN x
                                /\ "autoBridge" \notin DOMAIN x},
                       e \in Envs}
  /\ flowOut = NoOutput
  /\ buyOut = NoOutput

IdleCompose ==
  /\ flowParams = [buy |-> NoCall, env |-> NoEnv]
  /\ flowOut = NoOutput
  /\ buyOut = NoOutput

CallBuildCrossChainPurchaseFlow ==
  /\ flowOut = NoOutput
  /\ flowOut' = buildCrossChainPurchaseFlow(FlowParamsOf(flowParams.buy),
                  flowParams.env.failAt, flowParams.env.t1, flowParams.env.t2)
  /\ UNCHANGED <<flowParams, buyOut, notCompose>>

CallBuyNFTCrossChainInstructions ==
  /\ buyOut = NoOutput
  /\ buyOut' = buyNFTCrossChainInstructions(flowParams.buy,
                 flowParams.env.failAt, flowParams.env.t1, flowParams.env.t2)
  /\ UNCHANGED <<flowParams, flowOut, notCompose>>

NextCompose ==
  \/ CallBuildCrossChainPurchaseFlow
  \/ CallBuyNFTCrossChainInstructions

-----------------------------------------------------------------------------
(* Calls of validateAuthorizations *)

NotValidated == [threw |-> FALSE, chainNames |-> <<>>, message |-> "<not called>"]

InitValidate ==
  /\ valIn \in {[authorizations |-> [c \in S |-> Authorization(c, 0)],
                 requiredChainIds |-> r] :
                  S \in SUBSET Chains, r \in SeqsUpTo(Chains, MaxRequired)}
  /\ valOut = NotValidated

IdleValidate ==
  /\ valIn = [authorizations |-> <<>>, requiredChainIds |-> <<>>]
  /\ valOut = NotValidated

CallValidateAuthorizations ==
  /\ valOut = NotValidated
  /\ valOut' = validateAuthorizations(valIn.authorizations, valIn.requiredChainIds)
  /\ UNCHANGED <<valIn, notValidate>>

NextValidate == CallValidateAuthorizations

-----------------------------------------------------------------------------
(* The authorization cache: getOrSignAuthorizations and the session store *)

\* wallet.address as the wallet reports it: two spellings of one address,
\* and another address
Wallets == {"0xAbCd", "0xabcd", "0xEF01"}

\* String.prototype.toLowerCase
toLowerCase(str) ==
  CASE str = "0xAbCd" -> "0xabcd"
    [] str = "0xEF01" -> "0xef01"
    [] OTHER -> str

\* the key built from the address as spelled
storageKey_asSpelled(userAddress) == "biconomy_auth_" \o userAddress

\* `biconomy_auth_${userAddress.toLowerCase()}`
storageKey(userAddress) == "biconomy_auth_" \o toLowerCase(userAddress)

StorageKeys == {storageKey(w) : w \in Wallets}

\* the nonces the signing callback may report
Nonces == {0, 1}

SupportedChainIds == {SUPPORTED_CHAINS[i].id : i \in 1..Len(SUPPORTED_CHAINS)}

\* the numbers a property key of an authorization map may spell
ChainIdKeys == SupportedChainIds \cup {SEPOLIA}

\* const authorizations: OmnichainAuthorizations = {}
NoAuthorizations == [c \in {} |-> Authorization(0, 0)]

\* (_key, value) => typeof value === 'bigint' ? value.toString() : value
replacer(key, value) ==
  IF "bigint" \in DOMAIN value THEN StringV(ToString(value.bigint)) ELSE value

\* JSON.stringify(authorizations, replacer): the JSON text, as the tree it
\* denotes. Property keys are strings; a JSON text holds numbers and strings.
stringify(authorizations) ==
  [k \in {ToString(id) : id \in DOMAIN authorizations} |->
     LET id == CHOOSE c \in DOMAIN authorizations : ToString(c) = k
     IN  [f \in DOMAIN authorizations[id] |-> replacer(f, authorizations[id][f])]]

\* BigInt(value) for a decimal string
BigInt(str) == CHOOSE n \in Nonces : ToString(n) = str

\* a reviver that leaves every value as parsed
reviver_asParsed(key, value) == value

\* the reviver of getStoredAuthorizations
reviver(key, value) ==
  IF key = "nonce" /\ "string" \in DOMAIN value
  THEN BigIntV(BigInt(value.string))
  ELSE value

\* JSON.parse(stored, reviver). authorizations[chain.id] reads the property
\* named by the decimal spelling of chain.id.
parse(json) ==
  [id \in {c \in ChainIdKeys : ToString(c) \in DOMAIN json} |->
     LET auth == json[ToString(id)]
     IN  [f \in DOMAIN auth |-> reviver(f, auth[f])]]

NoItem == [present |-> FALSE, json |-> stringify(NoAuthorizations)]

\* storeAuthorizations: setItem may throw (quota); the error is swallowed
storeAuthorizations(storage, userAddress, authorizations, setItemOk) ==
  IF setItemOk
  THEN [storage EXCEPT ![storageKey(userAddress)] =
          [present |-> TRUE, json |-> stringify(authorizations)]]
  ELSE storage

\* getStoredAuthorizations: null when the key has no item
getStoredAuthorizations(storage, userAddress) ==
  LET stored == storage[storageKey(userAddress)]
  IN  IF ~stored.present
      THEN [found |-> FALSE, value |-> NoAuthorizations]
      ELSE [found |-> TRUE, value |-> parse(stored.json)]

\* the calls of getOrSignAuthorizations this session sees
Callers == {"a", "b"}

\* what the signing callback rejects with
SignErrors == {Error("User rejected the request"), NonError}

IdleCall ==
  [pc |-> "idle", wallet |-> "", useUniversal |-> FALSE, i |-> 0,
   authorizations |-> NoAuthorizations, prompts |-> 0, requests |-> <<>>,
   outcome |-> Pending, after |-> {}, stored |-> FALSE]

\* the account's nonce on each chain (0 stands for the universal chain id)
NonceTables ==
  { [c \in SupportedChainIds \cup {0} |-> 0],
    [c \in SupportedChainIds \cup {0} |-> IF c \in {0, BASE} THEN 1 ELSE 0] }

InitAuth ==
  /\ sessionStorage = [k \in StorageKeys |-> NoItem]
  /\ accountNonce \in NonceTables
  /\ authCalls = [k \in Callers |-> IdleCall]

IdleAuth ==
  /\ sessionStorage = [k \in StorageKeys |-> NoItem]
  /\ accountNonce = [c \in SupportedChainIds \cup {0} |-> 0]
  /\ authCalls = [k \in Callers |-> IdleCall]

\* the argument of signAuthorizationFn
SignRequest(chainId) ==
  [contractAddress |-> NEXUS_IMPLEMENTATION, chainId |-> chainId]

\* the universal authorization installed under the first supported chain only
installUniversal_firstChainOnly(universalAuth) ==
  [id \in {SUPPORTED_CHAINS[1].id} |-> universalAuth]

\* SUPPORTED_CHAINS.forEach((chain) => { authorizations[chain.id] = universalAuth })
installUniversal(universalAuth) ==
  [id \in SupportedChainIds |-> universalAuth]

\* the callers whose promise has settled
Settled == {k \in Callers : authCalls[k].pc = "done"}

\* getOrSignAuthorizations with a single-flight check: a call that finds
\* another call for the same user signing joins it instead of prompting
GetOrSignAuthorizations_singleFlight(k) ==
  /\ authCalls[k].pc = "idle"
  /\ \E wallet \in Wallets, useUniversal \in BOOLEAN :
       LET stored == getStoredAuthorizations(sessionStorage, wallet)
           inFlight == \E j \in Callers \ {k} :
                         /\ authCalls[j].pc = "signing"
                         /\ storageKey(authCalls[j].wallet) = storageKey(wallet)
           c == [IdleCall EXCEPT !.wallet = wallet,
                                 !.useUniversal = useUniversal,
                                 !.after = Settled]
       IN  authCalls' =
             [authCalls EXCEPT ![k] =
                IF stored.found
                THEN [c EXCEPT !.pc = "done",
                               !.outcome = Resolved(stored.value)]
                ELSE [c EXCEPT !.pc = "signing",
                               !.i = IF useUniversal THEN 0 ELSE 1,
                               !.prompts = IF inFlight THEN 0 ELSE 1,
                               !.requests =
                                 IF inFlight THEN <<>>
                                 ELSE <<SignRequest(IF useUniversal THEN 0
                                                    ELSE SUPPORTED_CHAINS[1].id)>>]]
  /\ UNCHANGED <<sessionStorage, accountNonce, notAuth>>

\* getOrSignAuthorizations up to its first await: the read of the store and,
\* on a miss, the first call of signAuthorizationFn inside
\* signOmnichainAuthorizations. `after` records the calls that had settled.
GetOrSignAuthorizations(k) ==
  /\ authCalls[k].pc = "idle"
  /\ \E wallet \in Wallets, useUniversal \in BOOLEAN :
       LET stored == getStoredAuthorizations(sessionStorage, wallet)
           c == [IdleCall EXCEPT !.wallet = wallet,
                                 !.useUniversal = useUniversal,
                                 !.after = Settled]
       IN  authCalls' =
             [authCalls EXCEPT ![k] =
                IF stored.found
                THEN [c EXCEPT !.pc = "done",
                               !.outcome = Resolved(stored.value)]
                ELSE [c EXCEPT !.pc = "signing",
                               !.i = IF useUniversal THEN 0 ELSE 1,
                               !.prompts = 1,
                               !.requests =
                                 <<SignRequest(IF useUniversal THEN 0
                                               ELSE SUPPORTED_CHAINS[1].id)>>]]
  /\ UNCHANGED <<sessionStorage, accountNonce, notAuth>>

\* signOmnichainAuthorizations returned: getOrSignAuthorizations writes the
\* store and resolves
Signed(k, authorizations, setItemOk) ==
  /\ sessionStorage' = storeAuthorizations(sessionStorage, authCalls[k].wallet,
                                           authorizations, setItemOk)
  /\ authCalls' = [authCalls EXCEPT ![k].pc = "done",
                                    ![k].authorizations = authorizations,
                                    ![k].outcome = Resolved(authorizations),
                                    ![k].stored = setItemOk]

\* signAuthorizationFn resolves: the universal authorization is installed
\* under every supported chain; a per-chain one under its chain, and the
\* loop asks for the next chain's signature
SignAuthorizationResolves(k) ==
  LET c == authCalls[k]
  IN  /\ c.pc = "signing"
      /\ IF c.useUniversal
         THEN \E setItemOk \in BOOLEAN :
                Signed(k, installUniversal(Authorization(0, accountNonce[0])),
                       setItemOk)
         ELSE LET chain == SUPPORTED_CHAINS[c.i]
                  authorizations ==
                    (chain.id :> Authorization(chain.id, accountNonce[chain.id]))
                      @@ c.authorizations
              IN  IF c.i < Len(SUPPORTED_CHAINS)
                  THEN /\ authCalls' =
                            [authCalls EXCEPT
                               ![k].authorizations = authorizations,
                               ![k].i = c.i + 1,
                               ![k].prompts = c.prompts + 1,
                               ![k].requests =
                                 Append(c.requests,
                                        SignRequest(SUPPORTED_CHAINS[c.i + 1].id))]
                       /\ UNCHANGED sessionStorage
                  ELSE \E setItemOk \in BOOLEAN :
                         Signed(k, authorizations, setItemOk)
      /\ UNCHANGED <<accountNonce, notAuth>>

\* a rejection that persists the authorizations signed so far
SignAuthorizationRejects_storesPartial(k) ==
  /\ authCalls[k].pc = "signing"
  /\ \E e \in SignErrors :
       authCalls' =
         [authCalls EXCEPT
            ![k].pc = "done",
            ![k].outcome =
              Rejected(Error("Failed to sign EIP-7702 authorizations: "
                               \o (IF e.isError THEN e.message
                                   ELSE "Unknown error")))]
  /\ sessionStorage' = storeAuthorizations(sessionStorage, authCalls[k].wallet,
                                           authCalls[k].authorizations, TRUE)
  /\ UNCHANGED <<accountNonce, notAuth>>

\* signAuthorizationFn rejects: signOmnichainAuthorizations rethrows, the
\* authorizations signed so far are dropped and nothing is stored
SignAuthorizationRejects(k) ==
  /\ authCalls[k].pc = "signing"
  /\ \E e \in SignErrors :
       authCalls' =
         [authCalls EXCEPT
            ![k].pc = "done",
            ![k].outcome =
              Rejected(Error("Failed to sign EIP-7702 authorizations: "
                               \o (IF e.isError THEN e.message
                                   ELSE "Unknown error")))]
  /\ UNCHANGED <<sessionStorage, accountNonce, notAuth>>

NextAuth ==
  \/ \E k \in Callers : GetOrSignAuthorizations(k)
  \/ \E k \in Callers : SignAuthorizationResolves(k)
  \/ \E k \in Callers : SignAuthorizationRejects(k)

-----------------------------------------------------------------------------
(* storeAuthorizations and getStoredAuthorizations called directly *)

\* the maps handed to storeAuthorizations: per-chain sets over some chains,
\* supported or not, and universal sets
AuthorizationSets ==
  UNION { { [c \in K |-> Authorization(c, nonce[c])] : nonce \in [K -> Nonces] } :
          K \in SUBSET {BASE, BASE_SEPOLIA, SEPOLIA} }
    \cup { [c \in SupportedChainIds |-> Authorization(0, n)] : n \in Nonces }

NoStoreCall ==
  [pc |-> "idle", userAddress |-> "", authorizations |-> NoAuthorizations,
   setItemOk |-> FALSE, readAddress |-> "",
   returned |-> [found |-> FALSE, value |-> NoAuthorizations]]

\* the store is empty, or holds an older set of the first wallet
InitStore ==
  /\ sessionStorage \in
       { [k \in StorageKeys |-> NoItem],
         [k \in StorageKeys |->
            IF k = storageKey("0xabcd")
            THEN [present |-> TRUE,
                  json |-> stringify([c \in {POLYGON} |-> Authorization(POLYGON, 1)])]
            ELSE NoItem] }
  /\ accountNonce = [c \in SupportedChainIds \cup {0} |-> 0]
  /\ authCalls = [k \in Callers |-> IdleCall]
  /\ storeCall = NoStoreCall

IdleStore == storeCall = NoStoreCall

CallStoreAuthorizations ==
  /\ storeCall.pc = "idle"
  /\ \E userAddress \in Wallets, authorizations \in AuthorizationSets,
        setItemOk \in BOOLEAN :
       /\ sessionStorage' = storeAuthorizations(sessionStorage, userAddress,
                                                authorizations, setItemOk)
       /\ storeCall' = [storeCall EXCEPT !.pc = "stored",
                                         !.userAddress = userAddress,
                                         !.authorizations = authorizations,
                                         !.setItemOk = setItemOk]
  /\ UNCHANGED notStore

CallGetStoredAuthorizations ==
  /\ storeCall.pc = "stored"
  /\ \E readAddress \in Wallets :
       storeCall' =
         [storeCall EXCEPT
            !.pc = "read",
            !.readAddress = readAddress,
            !.returned = getStoredAuthorizations(sessionStorage, readAddress)]
  /\ UNCHANGED <<sessionStorage, notStore>>

NextStore ==
  \/ CallStoreAuthorizations
  \/ CallGetStoredAuthorizations

-----------------------------------------------------------------------------
(* The hook useOmnichainMarketplace: initialize *)

MaxInitRuns == 2
MaxOps == 2

NullV == [isNull |-> TRUE]
Some(v) == [isNull |-> FALSE, value |-> v]

\* the wallet the hook is given
HookWallet == "0xAbCd"

\* what createOmnichainOrchestrator / createOmnichainMEEClient reject with
SetupErrors == {Error("Failed to create orchestrator")}

\* useState initial values
InitialHookState ==
  [orchestrator |-> NullV, meeClient |-> NullV, authorizations |-> NullV,
   isInitialized |-> FALSE, isLoading |-> FALSE, txStatus |-> "idle",
   error |-> NullV]

NoInitRun ==
  [pc |-> "none", by |-> "", runs |-> 0, i |-> 0,
   authorizations |-> NoAuthorizations, prompts |-> 0,
   lastFailure |-> "none", after |-> "none"]

\* the effect `if (wallet && !isInitialized && !isLoading) initialize()`; it
\* runs again whenever isInitialized or isLoading changes
EffectCondition == ~hook.isInitialized /\ ~hook.isLoading

\* initialize up to its first await: setIsLoading(true), setError(null),
\* createOmnichainOrchestrator called. by tells who called it: the effect or
\* the caller of the hook.
HookInitialize(by) ==
  /\ initRun.pc = "none"
  /\ initRun.runs < MaxInitRuns
  /\ EffectCondition
  /\ hook' = [hook EXCEPT !.isLoading = TRUE, !.error = NullV]
  /\ initRun' = [initRun EXCEPT !.pc = "createOmnichainOrchestrator",
                                !.by = by,
                                !.runs = initRun.runs + 1,
                                !.i = 0,
                                !.authorizations = NoAuthorizations,
                                !.prompts = 0,
                                !.after = initRun.lastFailure]
  /\ UNCHANGED <<sessionStorage, hookOps, timers, notHook>>

\* the catch block without its setError
InitializeFails_silent(e, stage) ==
  /\ hook' = [hook EXCEPT !.isInitialized = FALSE, !.isLoading = FALSE]
  /\ initRun' = [initRun EXCEPT !.pc = "none", !.lastFailure = stage]

\* catch (err) { setError(...); setIsInitialized(false) } finally
\* { setIsLoading(false) }
InitializeFails(e, stage) ==
  /\ hook' = [hook EXCEPT
                !.error = Some(IF e.isError THEN e.message
                               ELSE "Initialization failed"),
                !.isInitialized = FALSE,
                !.isLoading = FALSE]
  /\ initRun' = [initRun EXCEPT !.pc = "none", !.lastFailure = stage]

\* setAuthorizations(newAuthorizations); setIsInitialized(true); finally
\* { setIsLoading(false) }
InitializeSucceeds(authorizations) ==
  /\ hook' = [hook EXCEPT !.authorizations = Some(authorizations),
                          !.isInitialized = TRUE,
                          !.isLoading = FALSE]
  /\ initRun' = [initRun EXCEPT !.pc = "none", !.lastFailure = "none",
                                !.authorizations = authorizations]

CreateOrchestratorResolves ==
  /\ initRun.pc = "createOmnichainOrchestrator"
  /\ hook' = [hook EXCEPT !.orchestrator = Some("orchestrator")]
  /\ initRun' = [initRun EXCEPT !.pc = "createOmnichainMEEClient"]
  /\ UNCHANGED <<sessionStorage, hookOps, timers, notHook>>

CreateOrchestratorRejects ==
  /\ initRun.pc = "createOmnichainOrchestrator"
  /\ \E e \in SetupErrors : InitializeFails(e, "createOmnichainOrchestrator")
  /\ UNCHANGED <<sessionStorage, hookOps, timers, notHook>>

\* createOmnichainMEEClient resolved: setMeeClient, then
\* getOrSignAuthorizations(wallet, signAuthorization, false) reads the store
\* and, on a miss, asks for the first chain's signature
CreateMEEClientResolves ==
  /\ initRun.pc = "createOmnichainMEEClient"
  /\ hook' = [hook EXCEPT !.meeClient = Some("meeClient")]
  /\ LET stored == getStoredAuthorizations(sessionStorage, HookWallet)
     IN  initRun' =
           IF stored.found
           THEN [initRun EXCEPT !.pc = "getOrSignAuthorizations",
                                !.authorizations = stored.value]
           ELSE [initRun EXCEPT !.pc = "signAuthorization",
                                !.i = 1, !.prompts = 1]
  /\ UNCHANGED <<sessionStorage, hookOps, timers, notHook>>

CreateMEEClientRejects ==
  /\ initRun.pc = "createOmnichainMEEClient"
  /\ \E e \in SetupErrors : InitializeFails(e, "createOmnichainMEEClient")
  /\ UNCHANGED <<sessionStorage, hookOps, timers, notHook>>

\* getOrSignAuthorizations resolved with the stored set
StoredAuthorizationsReturned ==
  /\ initRun.pc = "getOrSignAuthorizations"
  /\ InitializeSucceeds(initRun.authorizations)
  /\ UNCHANGED <<sessionStorage, hookOps, timers, notHook>>

\* signAuthorization resolved for chain i: the loop goes on to the next
\* chain, or the set is stored and initialize completes
HookSignResolves ==
  /\ initRun.pc = "signAuthorization"
  /\ LET chain == SUPPORTED_CHAINS[initRun.i]
         authorizations ==
           (chain.id :> Authorization(chain.id, accountNonce[chain.id]))
             @@ initRun.authorizations
     IN  IF initRun.i < Len(SUPPORTED_CHAINS)
         THEN /\ initRun' = [initRun EXCEPT !.authorizations = authorizations,
                                            !.i = initRun.i + 1,
                                            !.prompts = initRun.prompts + 1]
              /\ UNCHANGED <<hook, sessionStorage>>
         ELSE \E setItemOk \in BOOLEAN :
                /\ sessionStorage' =
                     storeAuthorizations(sessionStorage, HookWallet,
                                         authorizations, setItemOk)
                /\ InitializeSucceeds(authorizations)
  /\ UNCHANGED <<hookOps, timers, notHook>>

\* signAuthorization rejected: getOrSignAuthorizations rejects with the
\* wrapped error
HookSignRejects ==
  /\ initRun.pc = "signAuthorization"
  /\ \E e \in SignErrors :
       InitializeFails(
         Error("Failed to sign EIP-7702 authorizations: "
                 \o (IF e.isError THEN e.message ELSE "Unknown error")),
         "signAuthorization")
  /\ UNCHANGED <<sessionStorage, hookOps, timers, notHook>>

-----------------------------------------------------------------------------
(* The hook useOmnichainMarketplace: listNFT, buyNFT, batchBuy *)

OpSlots == 1..MaxOps

HookOpKinds == {"listNFT", "buyNFT", "batchBuy"}

\* how the marketplace operation the hook awaits settles: a success result,
\* a failed result, or a rejection
HookOpOutcomes ==
  { Resolved([hash |-> "0xabc123", status |-> "success",
              chainIds |-> <<BASE_SEPOLIA>>,
              meeScanLink |-> getMEEScanLink("0xabc123"),
              receipt |-> "receipt"]),
    Resolved([hash |-> "0x0", status |-> "failed",
              chainIds |-> <<BASE_SEPOLIA>>, meeScanLink |-> "",
              error |-> "relay rejected the request"]),
    Rejected(Error("Marketplace not deployed on chain 11155111")) }

NoHookOp ==
  [pc |-> "none", kind |-> "", ran |-> FALSE, outcome |-> Pending,
   startedAtEnd |-> 0]

\* the calls made so far
started == Cardinality({k \in OpSlots : hookOps[k].pc # "none"})

\* the status set just before the await
StatusBeforeAwait(kind) ==
  IF kind = "listNFT" THEN "signing_authorization" ELSE "getting_quote"

\* err instanceof Error ? err.message : 'Failed to ...'
HookOpErrorMessage(kind, e) ==
  IF e.isError THEN e.message
  ELSE CASE kind = "listNFT" -> "Failed to list NFT"
         [] kind = "buyNFT" -> "Failed to buy NFT"
         [] OTHER -> "Failed to batch buy NFTs"

\* the finally block leaves the timer out
scheduleReset_never(pending) == pending

\* finally { setTimeout(() => setTxStatus('idle'), 3000) }
scheduleReset(pending) == pending + 1

\* listNFT / buyNFT / batchBuy up to the await: the guard throws when the
\* hook is not initialized; otherwise setTxStatus('preparing'),
\* setError(null) and, in the same synchronous block, the status set before
\* the await, which replaces 'preparing'
HookOpCalled(k) ==
  /\ hookOps[k].pc = "none"
  /\ \A j \in OpSlots : j < k => hookOps[j].pc # "none"
  /\ \E kind \in HookOpKinds :
       IF hook.orchestrator.isNull \/ hook.meeClient.isNull
            \/ hook.authorizations.isNull
       THEN /\ hookOps' =
                 [hookOps EXCEPT ![k] =
                    [NoHookOp EXCEPT
                       !.pc = "done", !.kind = kind,
                       !.outcome = Rejected(Error(
                         "Not initialized. Call initialize() first.")),
                       !.startedAtEnd = started + 1]]
            /\ UNCHANGED hook
       ELSE /\ hookOps' = [hookOps EXCEPT ![k] =
                             [NoHookOp EXCEPT !.pc = "awaiting", !.kind = kind,
                                              !.ran = TRUE]]
            /\ hook' = [hook EXCEPT !.txStatus = StatusBeforeAwait(kind),
                                    !.error = NullV]
  /\ UNCHANGED <<sessionStorage, initRun, timers, notHook>>

\* the awaited operation settled: setTxStatus(result.status) and return, or
\* setError, setTxStatus('failed') and rethrow; finally the reset timer
HookOpSettles(k) ==
  /\ hookOps[k].pc = "awaiting"
  /\ \E o \in HookOpOutcomes :
       /\ hookOps' = [hookOps EXCEPT ![k].pc = "done", ![k].outcome = o,
                                     ![k].startedAtEnd = started]
       /\ hook' = IF o.kind = "resolved"
                  THEN [hook EXCEPT !.txStatus = o.result.status]
                  ELSE [hook EXCEPT
                          !.error = Some(HookOpErrorMessage(hookOps[k].kind,
                                                            o.error)),
                          !.txStatus = "failed"]
  /\ timers' = scheduleReset(timers)
  /\ UNCHANGED <<sessionStorage, initRun, notHook>>

\* a reset timer fires: setTxStatus('idle')
TimerFires ==
  /\ timers > 0
  /\ timers' = timers - 1
  /\ hook' = [hook EXCEPT !.txStatus = "idle"]
  /\ UNCHANGED <<sessionStorage, initRun, hookOps, notHook>>

InitHook ==
  /\ hook = InitialHookState
  /\ initRun = NoInitRun
  /\ hookOps = [k \in OpSlots |-> NoHookOp]
  /\ timers = 0

IdleHook == InitHook

\* the session store when the hook mounts: empty, or holding the set an
\* earlier mount stored for the wallet
HookSessions ==
  { [k \in StorageKeys |-> NoItem],
    [k \in StorageKeys |->
       IF k = storageKey(HookWallet)
       THEN [present |-> TRUE,
             json |-> stringify([c \in SupportedChainIds |-> Authorization(c, 0)])]
       ELSE NoItem] }

\* the hook once initialize has completed: the three objects are set only
\* by a run that reached its end, and no run starts afterwards
InitializedHookState ==
  [InitialHookState EXCEPT
     !.orchestrator = Some("orchestrator"),
     !.meeClient = Some("meeClient"),
     !.authorizations = Some([c \in SupportedChainIds |-> Authorization(c, 0)]),
     !.isInitialized = TRUE]

\* the hook when the operations are called: not initialized yet, or
\* initialized
InitHookOps ==
  /\ hook \in {InitialHookState, InitializedHookState}
  /\ initRun = NoInitRun
  /\ hookOps = [k \in OpSlots |-> NoHookOp]
  /\ timers = 0

NextHookInit ==
  \/ \E by \in {"effect", "caller"} : HookInitialize(by)
  \/ CreateOrchestratorResolves
  \/ CreateOrchestratorRejects
  \/ CreateMEEClientResolves
  \/ CreateMEEClientRejects
  \/ StoredAuthorizationsReturned
  \/ HookSignResolves
  \/ HookSignRejects

NextHookOps ==
  \/ \E k \in OpSlots : HookOpCalled(k)
  \/ \E k \in OpSlots : HookOpSettles(k)
  \/ TimerFires

-----------------------------------------------------------------------------
(* marketplace/contracts/NFTMarketplace.sol *)

\* the three functions as the contract declares them: the call data of a
\* call with the declared parameters in the declared order
NFTMarketplace_createListing(nftContract, tokenId, paymentToken, price) ==
  encodeFunctionData("createListing(address,uint256,address,uint256)",
    <<Addr(nftContract), Uint(tokenId), Addr(paymentToken), Uint(price)>>)

NFTMarketplace_buyNFT(listingId) ==
  encodeFunctionData("buyNFT(uint256)", <<Uint(listingId)>>)

NFTMarketplace_cancelListing(listingId) ==
  encodeFunctionData("cancelListing(uint256)", <<Uint(listingId)>>)

\* listingCounter's type scaled down to 0..MaxListings: the checked
\* increment `listingCounter++` reverts at the largest value
MaxListings == 2
ListingIds == 0..MaxListings

\* msg.sender
Accounts == {UserAddress, "0x70997970C51812dc3A010C7d01b50e0d17dc79C8"}

\* the value of listings[id] for an id never written
NoListing ==
  [seller |-> ZeroAddress, nftContract |-> ZeroAddress, tokenId |-> 0,
   paymentToken |-> ZeroAddress, price |-> 0, active |-> FALSE]

NoMarketCall ==
  [fn |-> "none", sender |-> ZeroAddress, listingId |-> 0, ok |-> FALSE]

InitMarket ==
  /\ listings = [id \in ListingIds |-> NoListing]
  /\ listingCounter = 0
  /\ marketCall = NoMarketCall
  /\ sold = [id \in ListingIds |-> 0]
  /\ cancelled = [id \in ListingIds |-> 0]

IdleMarket == InitMarket

\* a require fails, or an external call reverts: the transaction changes
\* nothing
Reverts(fn, sender, listingId) ==
  /\ marketCall' = [fn |-> fn, sender |-> sender, listingId |-> listingId,
                    ok |-> FALSE]
  /\ UNCHANGED <<listings, listingCounter, sold, cancelled>>

\* createListing: isOwner and isApproved are what the NFT contract answers
\* to ownerOf and getApproved / isApprovedForAll
MarketCreateListing(sender) ==
  /\ \E nftContract \in {ZeroAddress, NftAddress},
        paymentToken \in {ZeroAddress, PaymentTokenIn},
        price \in {0, PriceIn},
        isOwner \in BOOLEAN, isApproved \in BOOLEAN :
       IF /\ price > 0
          /\ nftContract # ZeroAddress
          /\ paymentToken # ZeroAddress
          /\ isOwner
          /\ isApproved
          /\ listingCounter < MaxListings
       THEN LET listingId == listingCounter
            IN  /\ listingCounter' = listingCounter + 1
                /\ listings' =
                     [listings EXCEPT ![listingId] =
                        [seller |-> sender, nftContract |-> nftContract,
                         tokenId |-> TokenIdIn, paymentToken |-> paymentToken,
                         price |-> price, active |-> TRUE]]
                /\ marketCall' = [fn |-> "createListing", sender |-> sender,
                                  listingId |-> listingId, ok |-> TRUE]
                /\ UNCHANGED <<sold, cancelled>>
       ELSE Reverts("createListing", sender, listingCounter)
  /\ UNCHANGED notMarket

\* buyNFT: transfersOk tells whether the two token transfers and the NFT
\* transfer went through; a call back into the contract from the receiver
\* is stopped by nonReentrant and changes nothing
MarketBuyNFT(sender) ==
  /\ \E listingId \in ListingIds, transfersOk \in BOOLEAN :
       LET listing == listings[listingId]
       IN  IF /\ listing.active
              /\ sender # listing.seller
              /\ transfersOk
           THEN /\ listings' = [listings EXCEPT ![listingId].active = FALSE]
                /\ sold' = [sold EXCEPT ![listingId] = sold[listingId] + 1]
                /\ marketCall' = [fn |-> "buyNFT", sender |-> sender,
                                  listingId |-> listingId, ok |-> TRUE]
                /\ UNCHANGED <<listingCounter, cancelled>>
           ELSE Reverts("buyNFT", sender, listingId)
  /\ UNCHANGED notMarket

\* cancelListing with the seller check left out
MarketCancelListing_anyone(sender) ==
  /\ \E listingId \in ListingIds :
       LET listing == listings[listingId]
       IN  IF listing.active
           THEN /\ listings' = [listings EXCEPT ![listingId].active = FALSE]
                /\ cancelled' = [cancelled EXCEPT ![listingId] =
                                   cancelled[listingId] + 1]
                /\ marketCall' = [fn |-> "cancelListing", sender |-> sender,
                                  listingId |-> listingId, ok |-> TRUE]
                /\ UNCHANGED <<listingCounter, sold>>
           ELSE Reverts("cancelListing", sender, listingId)
  /\ UNCHANGED notMarket

MarketCancelListing(sender) ==
  /\ \E listingId \in ListingIds :
       LET listing == listings[listingId]
       IN  IF /\ listing.active
              /\ sender = listing.seller
           THEN /\ listings' = [listings EXCEPT ![listingId].active = FALSE]
                /\ cancelled' = [cancelled EXCEPT ![listingId] =
                                   cancelled[listingId] + 1]
                /\ marketCall' = [fn |-> "cancelListing", sender |-> sender,
                                  listingId |-> listingId, ok |-> TRUE]
                /\ UNCHANGED <<listingCounter, sold>>
           ELSE Reverts("cancelListing", sender, listingId)
  /\ UNCHANGED notMarket

NextMarket ==
  \/ \E sender \in Accounts : MarketCreateListing(sender)
  \/ \E sender \in Accounts : MarketBuyNFT(sender)
  \/ \E sender \in Accounts : MarketCancelListing(sender)

-----------------------------------------------------------------------------
(* Specifications *)

Init ==
  /\ InitOps /\ IdleCompose /\ IdleValidate /\ IdleAuth
  /\ IdleStore /\ IdleHook /\ IdleMarket
Next == NextOps
Spec == Init /\ [][Next]_vars

ComposeInit ==
  /\ InitOps /\ InitCompose /\ IdleValidate /\ IdleAuth
  /\ IdleStore /\ IdleHook /\ IdleMarket
SpecCompose == ComposeInit /\ [][NextCompose]_vars

ValidateInit ==
  /\ InitOps /\ IdleCompose /\ InitValidate /\ IdleAuth
  /\ IdleStore /\ IdleHook /\ IdleMarket
SpecValidate == ValidateInit /\ [][NextValidate]_vars

AuthInit ==
  /\ InitOps /\ IdleCompose /\ IdleValidate /\ InitAuth
  /\ IdleStore /\ IdleHook /\ IdleMarket
SpecAuth == AuthInit /\ [][NextAuth]_vars

StoreInit ==
  /\ InitOps /\ IdleCompose /\ IdleValidate /\ InitStore /\ IdleHook
  /\ IdleMarket
SpecStore == StoreInit /\ [][NextStore]_vars

HookInit ==
  /\ InitOps /\ IdleCompose /\ IdleValidate /\ IdleStore
  /\ sessionStorage \in HookSessions
  /\ accountNonce \in NonceTables
  /\ authCalls = [k \in Callers |-> IdleCall]
  /\ InitHook
  /\ IdleMarket
SpecHookInit == HookInit /\ [][NextHookInit]_vars

\* an initialized hook has left its set in the session store
HookOpsInit ==
  /\ InitOps /\ IdleCompose /\ IdleValidate /\ IdleStore
  /\ InitHookOps
  /\ sessionStorage \in { s \in HookSessions :
        s[storageKey(HookWallet)].present = hook.isInitialized }
  /\ accountNonce = [c \in SupportedChainIds \cup {0} |-> 0]
  /\ authCalls = [k \in Callers |-> IdleCall]
  /\ IdleMarket
SpecHookOps == HookOpsInit /\ [][NextHookOps]_vars

\* a pending timer fires: the event loop runs its callback
SpecHookOpsFair == SpecHookOps /\ WF_vars(TimerFires)

MarketInit ==
  /\ InitOps /\ IdleCompose /\ IdleValidate /\ IdleAuth /\ IdleStore /\ IdleHook
  /\ InitMarket
SpecMarket == MarketInit /\ [][NextMarket]_vars

-----------------------------------------------------------------------------
(* Vocabulary of the properties *)

\* the chains MARKETPLACE_ADDRESSES has an entry for
Registered(chainId) ==
  chainId \in {ETHEREUM, OPTIMISM, POLYGON, BASE, ARBITRUM, BASE_SEPOLIA}

TheCall(ins) == ins.calls[1]

\* ERC-20 approve of any amount to spender, on chainId
IsApproveTo(ins, chainId, spender) ==
  /\ ins.chainId = chainId
  /\ Len(ins.calls) = 1
  /\ TheCall(ins).data.fn = "approve(address,uint256)"
  /\ TheCall(ins).data.args[1] = [type |-> "address", a |-> spender]

IsRuntimeAmount(arg) == arg.type = "runtimeERC20BalanceOf" /\ arg.gte >= 1
IsFixedAmount(arg, n) == arg = [type |-> "uint256", n |-> n]

\* a depositV3 call on the SpokePool of chainId
IsBridgeDeposit(ins, chainId) ==
  /\ ins.chainId = chainId
  /\ Len(ins.calls) = 1
  /\ TheCall(ins).to = ACROSS_SPOKE_POOLS(chainId)
  /\ TheCall(ins).data.fn = DepositV3Sig

\* a call of a function named buyNFT on the marketplace of chainId
IsBuy(ins, chainId) ==
  /\ ins.chainId = chainId
  /\ Len(ins.calls) = 1
  /\ TheCall(ins).to = MARKETPLACE_ADDRESSES(chainId)
  /\ TheCall(ins).data.fn \in {"buyNFT(uint256,address,uint256)",
                               "buyNFT(address,uint256,address,uint256)"}

Positions(list, P(_)) == {i \in 1..Len(list) : P(list[i])}

Submitted == relayCalls # <<>>

-----------------------------------------------------------------------------
(* C1 *)

FlowIsCrossChain ==
  /\ flowParams.buy # NoCall
  /\ flowParams.buy.paymentChain # flowParams.buy.listingChain

\* C1: in every list buildCrossChainPurchaseFlow returns for
\* paymentChainId # listingChainId, the approve to the bridge comes strictly
\* before the bridge deposit, and both come strictly before the approve to
\* the marketplace and the buy on the listing chain; each of the four occurs.
C1_BridgeBeforePurchase ==
  (FlowIsCrossChain /\ flowOut.ok) =>
    LET y == flowParams.buy.paymentChain
        x == flowParams.buy.listingChain
        list == flowOut.value
        A == Positions(list, LAMBDA i : IsApproveTo(i, y, ACROSS_SPOKE_POOLS(y)))
        D == Positions(list, LAMBDA i : IsBridgeDeposit(i, y))
        M == Positions(list, LAMBDA i : IsApproveTo(i, x, MARKETPLACE_ADDRESSES(x)))
        B == Positions(list, LAMBDA i : IsBuy(i, x))
    IN  /\ A # {} /\ D # {} /\ M # {} /\ B # {}
        /\ \A a \in A, d \in D : a < d
        /\ \A d \in D, m \in M \cup B : d < m

C1_Witness ==
  /\ FlowIsCrossChain
  /\ flowOut.ok
  /\ Len(flowOut.value) = 4

-----------------------------------------------------------------------------
(* C7 *)

FlowIsSameChain ==
  /\ flowParams.buy # NoCall
  /\ flowParams.buy.paymentChain = flowParams.buy.listingChain

\* C7: with paymentChain = listingChain, buildCrossChainPurchaseFlow returns
\* the same instruction list, call for call, as the same-chain path of
\* buyNFTCrossChain for the equivalent parameters, with no bridge instruction.
C7_SameChainShortcutEqual ==
  (FlowIsSameChain /\ flowOut # NoOutput /\ buyOut # NoOutput) =>
    /\ flowOut.ok /\ buyOut.ok
    /\ flowOut.value = buyOut.value
    /\ Positions(flowOut.value,
                 LAMBDA i : IsBridgeDeposit(i, flowParams.buy.paymentChain)) = {}

-----------------------------------------------------------------------------
(* C3 *)

\* the name the message gives a chain: its SUPPORTED_CHAINS name, or
\* 'Chain <id>'
ListedName(id) ==
  IF \E k \in 1..Len(SUPPORTED_CHAINS) : SUPPORTED_CHAINS[k].id = id
  THEN (CHOOSE c \in {SUPPORTED_CHAINS[k] : k \in 1..Len(SUPPORTED_CHAINS)} :
          c.id = id).name
  ELSE "Chain " \o ToString(id)

\* C3: validateAuthorizations throws iff some required chain id has no entry
\* in authorizations; the message then names every missing chain, and only
\* missing chains; otherwise it returns with nothing reported.
C3_ValidateThrowsIffMissing ==
  (valOut # NotValidated) =>
    LET required == valIn.requiredChainIds
        missing == {required[i] : i \in 1..Len(required)}
                     \ DOMAIN valIn.authorizations
        listed == {valOut.chainNames[k] : k \in 1..Len(valOut.chainNames)}
    IN  /\ valOut.threw <=> missing # {}
        /\ listed = {ListedName(id) : id \in missing}
        /\ valOut.threw =>
             valOut.message = "Missing EIP-7702 authorizations for chains: "
                                \o join(valOut.chainNames, ", ")
                                \o ". Please sign authorizations first."

C3_Witness ==
  /\ valOut.threw
  /\ Len(valOut.chainNames) = 2
  /\ valOut.chainNames[1] # valOut.chainNames[2]
  /\ \E k \in 1..2 : valOut.chainNames[k] = "Chain 11155111"

-----------------------------------------------------------------------------
(* C2 *)

\* the authorizations array has an entry for chainId (its own, or the
\* universal one signed with chainId 0)
Covers(authorizations, chainId) ==
  \E k \in 1..Len(authorizations) :
    authorizations[k].chainId.number \in {chainId, 0}

\* C2: getQuote is never called with an instruction whose chainId the
\* authorizations passed to the operation do not cover.
C2_CoverageCheckedBeforeSubmission ==
  Submitted =>
    \A i \in 1..Len(quoteReq.instructions) :
      Covers(call.authorizations, quoteReq.instructions[i].chainId)

-----------------------------------------------------------------------------
(* C5 *)

\* C5: no public operation rejects: every error comes back as a result with
\* status 'failed' and an error message.
C5_NoOperationThrows ==
  /\ outcome.kind # "rejected"
  /\ (thrown.at # "none" /\ pc = "done") =>
       /\ outcome.kind = "resolved"
       /\ outcome.result.status = "failed"
       /\ "error" \in DOMAIN outcome.result

-----------------------------------------------------------------------------
(* C6 *)

RelayFunctions == {"getQuote", "executeQuote", "waitForSupertransactionReceipt"}

\* C6: when getQuote, executeQuote or waitForSupertransactionReceipt rejects,
\* the operation resolves with status 'failed', hash '0x0', an empty explorer
\* link and the thrown Error's message as error ('Unknown error' when the
\* thrown value is not an Error).
C6_RelayRejectionReturnsFailed ==
  (thrown.at \in RelayFunctions) =>
    /\ pc = "done"
    /\ outcome.kind = "resolved"
    /\ outcome.result.status = "failed"
    /\ outcome.result.hash = "0x0"
    /\ outcome.result.meeScanLink = ""
    /\ "receipt" \notin DOMAIN outcome.result
    /\ outcome.result.error = IF thrown.error.isError
                              THEN thrown.error.message
                              ELSE "Unknown error"

C6_Witness ==
  /\ thrown.at = "executeQuote"
  /\ thrown.error.isError
  /\ call.op = "batchBuyNFTs"
  /\ outcome.kind = "resolved"

-----------------------------------------------------------------------------
(* C8 *)

IsBatch == call.op = "batchBuyNFTs"

\* the items of the batch whose chain has a marketplace entry, in item order
Remaining ==
  SelectSeq(call.params.buyInstructions, LAMBDA item : Registered(item.chain))

\* list holds one approve+buy pair per item of items, in order
PairsFor(list, items) ==
  /\ Len(list) = 2 * Len(items)
  /\ \A k \in 1..Len(items) :
       LET item == items[k]
           approve == list[2 * k - 1]
           buy == list[2 * k]
       IN  /\ IsApproveTo(approve, item.chain, MARKETPLACE_ADDRESSES(item.chain))
           /\ TheCall(approve).to = item.paymentToken.address
           /\ IsFixedAmount(TheCall(approve).data.args[2], item.price)
           /\ IsBuy(buy, item.chain)
           /\ TheCall(buy).data.args =
                << [type |-> "uint256", n |-> Default(item, "listingId", 0)],
                   [type |-> "address", a |-> item.nftAddress],
                   [type |-> "uint256", n |-> item.tokenId] >>

-----------------------------------------------------------------------------
(* C9 *)

IsPurchase == call.op = "buyNFTCrossChain"

\* C9: the list buyNFTCrossChain submits for paymentChain Y # listingChain X
\* with autoBridge on is exactly [approve to the bridge on Y, bridge deposit
\* on Y, runtime-balance approve to the marketplace on X, buy on X].
C9_CrossChainSubmitsFour ==
  (/\ IsPurchase /\ Submitted
   /\ call.params.paymentChain # call.params.listingChain
   /\ Default(call.params, "autoBridge", TRUE)) =>
    LET y == call.params.paymentChain
        x == call.params.listingChain
        list == quoteReq.instructions
    IN  /\ Len(list) = 4
        /\ IsApproveTo(list[1], y, ACROSS_SPOKE_POOLS(y))
        /\ IsBridgeDeposit(list[2], y)
        /\ IsApproveTo(list[3], x, MARKETPLACE_ADDRESSES(x))
        /\ IsRuntimeAmount(TheCall(list[3]).data.args[2])
        /\ IsBuy(list[4], x)

C9_Witness ==
  /\ IsPurchase /\ Submitted
  /\ call.params.paymentChain = POLYGON
  /\ call.params.listingChain = BASE
  /\ "autoBridge" \notin DOMAIN call.params
  /\ Len(quoteReq.instructions) = 4

-----------------------------------------------------------------------------
(* C10 *)

\* C10: the list buyNFTCrossChain submits for paymentChain = listingChain = X
\* is exactly [approve of the price to the marketplace, buy], both on X.
C10_SameChainSubmitsTwo ==
  (/\ IsPurchase /\ Submitted
   /\ call.params.paymentChain = call.params.listingChain) =>
    LET x == call.params.listingChain
        list == quoteReq.instructions
    IN  /\ Len(list) = 2
        /\ IsApproveTo(list[1], x, MARKETPLACE_ADDRESSES(x))
        /\ TheCall(list[1]).to = call.params.paymentTokenAddress
        /\ IsFixedAmount(TheCall(list[1]).data.args[2], call.params.price)
        /\ IsBuy(list[2], x)
        /\ \A i \in 1..2 : list[i].chainId = x

C10_Witness ==
  /\ IsPurchase /\ Submitted
  /\ call.params.paymentChain = BASE_SEPOLIA
  /\ call.params.listingChain = BASE_SEPOLIA
  /\ Len(quoteReq.instructions) = 2

-----------------------------------------------------------------------------
(* C4 *)

\* q is a second call: it started after p had settled, for the same user and
\* in the same mode, p having resolved and written its set to the store
SecondCall(p, q) ==
  /\ p # q
  /\ authCalls[p].pc = "done"
  /\ authCalls[q].pc # "idle"
  /\ p \in authCalls[q].after
  /\ toLowerCase(authCalls[p].wallet) = toLowerCase(authCalls[q].wallet)
  /\ authCalls[p].useUniversal = authCalls[q].useUniversal
  /\ authCalls[p].outcome.kind = "resolved"
  /\ authCalls[p].stored

\* the second call resolves at once with the first call's set, without
\* calling signAuthorizationFn
ReturnsCached(p, q) ==
  /\ authCalls[q].pc = "done"
  /\ authCalls[q].prompts = 0
  /\ authCalls[q].outcome = authCalls[p].outcome

-----------------------------------------------------------------------------
(* C11 *)

\* getStoredAuthorizations read the address storeAuthorizations wrote under,
\* and the write took place
RoundTrip ==
  /\ storeCall.pc = "read"
  /\ toLowerCase(storeCall.readAddress) = toLowerCase(storeCall.userAddress)
  /\ storeCall.setItemOk

-----------------------------------------------------------------------------
(* C14 *)

\* C14: when executeQuote has returned a hash and the wait for the receipt
\* rejects, the operation still returns that hash, and not status 'failed'.
C14_WaitFailureKeepsHash ==
  (thrown.at = "waitForSupertransactionReceipt") =>
    /\ outcome.kind = "resolved"
    /\ outcome.result.hash = hash
    /\ outcome.result.status # "failed"

-----------------------------------------------------------------------------
(* C18 *)

\* C18: buyNFTCrossChain with autoBridge false and paymentChain # listingChain
\* submits exactly [approve, buy], both on the listing chain, and no bridge
\* instruction.
C18_NoBridgeWithoutAutoBridge ==
  (/\ IsPurchase /\ Submitted
   /\ call.params.paymentChain # call.params.listingChain
   /\ ~Default(call.params, "autoBridge", TRUE)) =>
    LET x == call.params.listingChain
        list == quoteReq.instructions
    IN  /\ Len(list) = 2
        /\ IsApproveTo(list[1], x, MARKETPLACE_ADDRESSES(x))
        /\ IsBuy(list[2], x)
        /\ \A i \in 1..Len(list) :
             /\ list[i].chainId = x
             /\ ~IsBridgeDeposit(list[i], list[i].chainId)
             /\ ~IsApproveTo(list[i], list[i].chainId,
                             ACROSS_SPOKE_POOLS(call.params.paymentChain))

C18_Witness ==
  /\ IsPurchase /\ Submitted
  /\ call.params.paymentChain = POLYGON
  /\ call.params.listingChain = BASE
  /\ "autoBridge" \in DOMAIN call.params
  /\ ~call.params.autoBridge
  /\ Len(quoteReq.instructions) = 2

-----------------------------------------------------------------------------
(* C19 *)

\* the chain an operation with a single target chain is about
TargetChain ==
  CASE call.op = "listNFTGasless" -> call.params.chain
    [] call.op = "buyNFTCrossChain" -> call.params.listingChain
    [] call.op = "cancelListing" -> call.params.chainId
    [] OTHER -> 0

\* MARKETPLACE_ADDRESSES names a deployed contract for chainId: an entry
\* that is not the zero-address placeholder
Deployed(chainId) ==
  /\ Registered(chainId)
  /\ MARKETPLACE_ADDRESSES(chainId) # ZeroAddress

-----------------------------------------------------------------------------
(* C20 *)

\* C20: a returned TransactionResult has an error iff its status is 'failed';
\* a 'success' result carries the hash executeQuote returned, the explorer
\* link of that hash and the receipt, and no error.
C20_ErrorIffFailed ==
  (outcome.kind = "resolved") =>
    LET result == outcome.result
    IN  /\ result.status \in {"success", "failed"}
        /\ ("error" \in DOMAIN result) <=> (result.status = "failed")
        /\ (result.status = "success") =>
             /\ relayCalls =
                  <<"getQuote", "executeQuote", "waitForSupertransactionReceipt">>
             /\ result.hash = hash
             /\ result.hash \in Hashes
             /\ result.meeScanLink = getMEEScanLink(hash)
             /\ "receipt" \in DOMAIN result
             /\ result.receipt \in Receipts

C20_Witness ==
  /\ outcome.kind = "resolved"
  /\ outcome.result.status = "success"
  /\ call.op = "batchBuyNFTs"
  /\ outcome.result.meeScanLink = "https://meescan.biconomy.io/details/0xabc123"

-----------------------------------------------------------------------------
(* C16 *)

\* the text names the chain: the name stands in it between parts the
\* messages of the model are made of
MessageParts ==
  {"", ": ", ", ", "Failed to sign EIP-7702 authorizations: ",
   "Failed to sign EIP-7702 authorizations for chains: ", "Unknown error"}
    \cup {e.message : e \in {x \in SignErrors : x.isError}}

Mentions(message, name) ==
  \E before \in MessageParts, sep \in MessageParts, after \in MessageParts :
    message = before \o name \o sep \o after

\* the per-chain call k failed at the chain with index authCalls[k].i,
\* after signatures for earlier chains
FailedAfterSome(k) ==
  /\ authCalls[k].pc = "done"
  /\ ~authCalls[k].useUniversal
  /\ authCalls[k].prompts > 1
  /\ authCalls[k].outcome.kind # "resolved"

\* C16: when per-chain signing fails for chain N, the authorizations signed
\* for the earlier chains are kept in the resulting set, and the error names
\* the chain that failed.
C16_PartialSetKept ==
  \A k \in Callers :
    FailedAfterSome(k) =>
      LET c == authCalls[k]
          earlier == {SUPPORTED_CHAINS[j].id : j \in 1..(c.i - 1)}
      IN  /\ "result" \in DOMAIN c.outcome
          /\ DOMAIN c.outcome.result = earlier
          /\ Mentions(c.outcome.error.message, SUPPORTED_CHAINS[c.i].name)

-----------------------------------------------------------------------------
(* C17 *)

\* the requests for SUPPORTED_CHAINS[1..n], in order
RECURSIVE SupportedRequestsUpTo(_)
SupportedRequestsUpTo(n) ==
  IF n = 0 THEN <<>>
  ELSE Append(SupportedRequestsUpTo(n - 1), SignRequest(SUPPORTED_CHAINS[n].id))

\* C17: signOmnichainAuthorizations in universal mode calls the signing
\* callback exactly once, with chainId 0, and installs that authorization
\* under every supported chain; in per-chain mode it calls it once per
\* supported chain, in SUPPORTED_CHAINS order, each with that chain's id; on
\* success the keys of the returned set are exactly the supported chain ids.
C17_SigningCalls ==
  \A k \in Callers :
    LET c == authCalls[k]
    IN  (c.prompts > 0) =>
          /\ Len(c.requests) = c.prompts
          /\ IF c.useUniversal
             THEN c.requests = <<SignRequest(0)>>
             ELSE c.requests = SupportedRequestsUpTo(Len(c.requests))
          /\ (c.outcome.kind = "resolved") =>
               /\ DOMAIN c.outcome.result = SupportedChainIds
               /\ IF c.useUniversal
                  THEN \A id \in SupportedChainIds :
                         /\ c.outcome.result[id] = c.outcome.result[BASE]
                         /\ c.outcome.result[id].chainId = NumberV(0)
                  ELSE /\ Len(c.requests) = Len(SUPPORTED_CHAINS)
                       /\ \A id \in SupportedChainIds :
                            c.outcome.result[id].chainId = NumberV(id)

C17_Witness ==
  /\ authCalls["a"].outcome.kind = "resolved"
  /\ authCalls["a"].useUniversal
  /\ authCalls["a"].prompts = 1
  /\ authCalls["b"].outcome.kind = "resolved"
  /\ ~authCalls["b"].useUniversal
  /\ authCalls["b"].prompts = 6
  /\ authCalls["b"].wallet = "0xEF01"

-----------------------------------------------------------------------------
(* C12 *)

\* the position of a status in the sequence idle, preparing,
\* signing_authorization, getting_quote, signing_execution, executing,
\* confirming, then success or failed
Rank(status) ==
  CASE status = "idle" -> 0
    [] status = "preparing" -> 1
    [] status = "signing_authorization" -> 2
    [] status = "getting_quote" -> 3
    [] status = "signing_execution" -> 4
    [] status = "executing" -> 5
    [] status = "confirming" -> 6
    [] status \in {"success", "failed"} -> 7

\* C12: the hook's txStatus only moves forward through the sequence: until
\* it has reached success or failed, every change takes it to a later state.
C12_StatusOnlyForward ==
  [][ (hook'.txStatus # hook.txStatus /\ hook.txStatus \notin {"success", "failed"})
        => Rank(hook'.txStatus) > Rank(hook.txStatus) ]_vars

-----------------------------------------------------------------------------
(* C13 *)

\* the call in slot k passed the guard and has ended
RanAndEnded(k) == hookOps[k].pc = "done" /\ hookOps[k].ran

\* C13: after an operation started through the hook has ended (success,
\* failed result or throw), txStatus eventually returns to idle, unless a
\* further operation is started.
C13_StatusReturnsToIdle ==
  \A k \in OpSlots :
    [](RanAndEnded(k) =>
         <>(hook.txStatus = "idle" \/ started > hookOps[k].startedAtEnd))

C13_Witness ==
  /\ RanAndEnded(1)
  /\ hookOps[1].outcome.kind = "rejected"
  /\ started = 1
  /\ timers = 0
  /\ hook.txStatus = "idle"
  /\ ~hook.error.isNull

-----------------------------------------------------------------------------
(* C15 *)

\* C15: after initialize failed because the signing callback rejected, the
\* hook does not call the signing callback again unless the caller starts
\* initialize again.
C15_NoRetryAfterSigningFailure ==
  ~(/\ initRun.by = "effect"
    /\ initRun.after = "signAuthorization"
    /\ initRun.prompts > 0)

-----------------------------------------------------------------------------
(* C21 *)

\* the bridge deposits among the instructions buyNFTCrossChain submitted
SubmittedDeposits ==
  {i \in 1..Len(quoteReq.instructions) :
     IsBridgeDeposit(quoteReq.instructions[i], call.params.paymentChain)}

-----------------------------------------------------------------------------
(* C22 *)

RelayOrder == <<"getQuote", "executeQuote", "waitForSupertransactionReceipt">>

\* C22: within one public operation the relay calls made so far are a prefix
\* of getQuote, executeQuote, waitForSupertransactionReceipt (fixed order,
\* each at most once); executeQuote is called only when getQuote resolved,
\* the wait only when executeQuote returned a hash; when getQuote rejects no
\* later call is made and the result is 'failed'.
C22_RelayOrder ==
  /\ \E n \in 0..3 : relayCalls = SubSeq(RelayOrder, 1, n)
  /\ Len(relayCalls) >= 2 => thrown.at # "getQuote"
  /\ Len(relayCalls) = 3 => (hash \in Hashes /\ thrown.at # "executeQuote")
  /\ thrown.at = "getQuote" =>
       /\ relayCalls = <<"getQuote">>
       /\ pc = "done"
       /\ outcome.kind = "resolved"
       /\ outcome.result.status = "failed"

C22_Witness ==
  /\ pc = "done"
  /\ call.op = "batchBuyNFTs"
  /\ thrown.at = "getQuote"
  /\ relayCalls = <<"getQuote">>
  /\ outcome.kind = "resolved"
  /\ outcome.result.status = "failed"

-----------------------------------------------------------------------------
(* C23 *)

Range(list) == {list[i] : i \in 1..Len(list)}

\* the chains of the instructions submitted to the relay
SubmittedChainIds == {ins.chainId : ins \in Range(quoteReq.instructions)}

Succeeded ==
  /\ pc = "done"
  /\ outcome.kind = "resolved"
  /\ outcome.result.status = "success"

-----------------------------------------------------------------------------
(* C24 *)

\* calls j and k are for the same user, both read the store and missed, and
\* neither has settled
BothMissed(j, k) ==
  /\ j # k
  /\ authCalls[j].pc = "signing"
  /\ authCalls[k].pc = "signing"
  /\ storageKey(authCalls[j].wallet) = storageKey(authCalls[k].wallet)

\* C24: nothing guards the read of the store and the later write: of two
\* interleaved getOrSignAuthorizations calls for one user that both missed
\* the cache, each has invoked the signing callback itself.
C24_BothCallsPrompt ==
  \A j, k \in Callers :
    BothMissed(j, k) =>
      /\ authCalls[j].prompts >= 1
      /\ authCalls[k].prompts >= 1
      /\ Len(authCalls[j].requests) = authCalls[j].prompts
      /\ Len(authCalls[k].requests) = authCalls[k].prompts

\* both calls are in flight on an empty store and both have prompted
C24_Witness ==
  /\ BothMissed("a", "b")
  /\ ~sessionStorage[storageKey(authCalls["a"].wallet)].present
  /\ authCalls["a"].prompts >= 1
  /\ authCalls["b"].prompts >= 1

-----------------------------------------------------------------------------
(* C28 *)

\* call k rejected: its signing callback rejected
SigningFailed(k) ==
  /\ authCalls[k].pc = "done"
  /\ authCalls[k].outcome.kind = "rejected"

\* call q started after p had settled, for the same user
StartedAfter(p, q) ==
  /\ p # q
  /\ authCalls[q].pc # "idle"
  /\ p \in authCalls[q].after
  /\ storageKey(authCalls[p].wallet) = storageKey(authCalls[q].wallet)

\* an item in the store was written by a call that resolved
OnlyResolvedCallsStore ==
  \A key \in StorageKeys :
    sessionStorage[key].present =>
      \E k \in Callers :
        /\ authCalls[k].pc = "done"
        /\ authCalls[k].outcome.kind = "resolved"
        /\ storageKey(authCalls[k].wallet) = key

\* C28: when the signing callback rejects during getOrSignAuthorizations the
\* call rejects and the step leaves the session store as it was (no partial
\* set is persisted), so a call made afterwards for the same user misses the
\* cache again and invokes the signing callback.
C28_RejectionLeavesStore ==
  /\ [](/\ OnlyResolvedCallsStore
        /\ \A p, q \in Callers :
             (SigningFailed(p) /\ StartedAfter(p, q)) =>
               authCalls[q].prompts >= 1)
  /\ [][\A k \in Callers :
          (authCalls[k].pc = "signing" /\ authCalls'[k].pc = "done"
             /\ authCalls'[k].outcome.kind # "resolved") =>
            /\ authCalls'[k].outcome.kind = "rejected"
            /\ ~authCalls'[k].stored
            /\ sessionStorage' = sessionStorage]_vars

\* a per-chain call rejected after earlier chains were signed, and the call
\* made afterwards found the store empty and prompted
C28_Witness ==
  /\ SigningFailed("a")
  /\ authCalls["a"].prompts > 1
  /\ StartedAfter("a", "b")
  /\ authCalls["b"].prompts >= 1
  /\ ~sessionStorage[storageKey(authCalls["a"].wallet)].present

-----------------------------------------------------------------------------
(* C25 *)

InFlight(k) == hookOps[k].pc = "awaiting"

\* C25: while an operation started through the hook is in flight, txStatus
\* is not idle, whatever the interleaving of operations and reset timers.
C25_NotIdleInFlight ==
  \A k \in OpSlots : InFlight(k) => hook.txStatus # "idle"

-----------------------------------------------------------------------------
(* C26 *)

\* C26: whenever txStatus is 'failed' the hook's error holds a message, also
\* when the operation resolved with a failed result instead of throwing.
C26_FailedHasError ==
  hook.txStatus = "failed" => ~hook.error.isNull

-----------------------------------------------------------------------------
(* C27 *)

InitializeRunning == initRun.pc # "none"

\* the last run of initialize has ended in its catch block
InitializeFailed == ~InitializeRunning /\ initRun.lastFailure # "none"

-----------------------------------------------------------------------------
(* C29 *)

\* the calls to the marketplace contract among the submitted instructions
MarketplaceCalls ==
  {TheCall(ins) : ins \in
     {x \in Range(quoteReq.instructions) :
        TheCall(x).to = MARKETPLACE_ADDRESSES(x.chainId)}}

\* the call data the contract's declarations give for the operation in
\* `call`: createListing(nftContract, tokenId, paymentToken, price),
\* buyNFT(listingId), cancelListing(listingId)
ContractCallData ==
  CASE call.op = "listNFTGasless" ->
         {NFTMarketplace_createListing(call.params.nftAddress,
                                       call.params.tokenId, token,
                                       call.params.price) :
            token \in {PaymentTokenIn, getUSDCAddress(call.params.chain)}}
    [] call.op = "cancelListing" ->
         {NFTMarketplace_cancelListing(call.params.listingId)}
    [] OTHER ->
         {NFTMarketplace_buyNFT(listingId) : listingId \in {0, ListingIdIn}}

\* C29: the createListing, buyNFT and cancelListing calls the frontend
\* composes pass the same number of arguments, in the same order and with
\* the same meaning, as the functions the NFTMarketplace contract declares.
C29_CallsMatchContract ==
  Submitted => \A c \in MarketplaceCalls : c.data \in ContractCallData

-----------------------------------------------------------------------------
(* C30 *)

Created(id) == id < listingCounter

\* a buyNFT or cancelListing for id has succeeded
Closed(id) == sold[id] + cancelled[id] > 0

\* C30: for any sequence of createListing, buyNFT and cancelListing calls a
\* listing is active exactly between its creation and its first successful
\* buyNFT or cancelListing, an inactive listing never becomes active again
\* and is sold at most once, only the seller cancels it, the seller never
\* buys it, and listingCounter never decreases.
C30_ListingLifecycle ==
  /\ [](\A id \in ListingIds :
          /\ listings[id].active <=> (Created(id) /\ ~Closed(id))
          /\ sold[id] <= 1
          /\ sold[id] + cancelled[id] <= 1)
  /\ [](marketCall.ok =>
          LET seller == listings[marketCall.listingId].seller
          IN  /\ marketCall.fn = "cancelListing" => marketCall.sender = seller
              /\ marketCall.fn = "buyNFT" => marketCall.sender # seller)
  /\ [][/\ \A id \in ListingIds :
            (Created(id) /\ ~listings[id].active) => ~listings'[id].active
        /\ listingCounter' >= listingCounter]_vars

\* every id has been used; listing 0 was sold and listing 1 was cancelled by
\* its seller; a further buyNFT of listing 0 has just reverted
C30_Witness ==
  /\ listingCounter = MaxListings
  /\ sold[0] = 1
  /\ cancelled[1] = 1
  /\ ~listings[0].active
  /\ ~listings[1].active
  /\ marketCall = [fn |-> "buyNFT", sender |-> UserAddress, listingId |-> 0,
                   ok |-> FALSE]
  /\ listings[0].seller # UserAddress

====
